---- MODULE Spec2Model ----
(***************************************************************************)
(* Session orchestration of the Autohand ACP agent (src/src/acp-agent.ts): *)
(* one session, its prompt queue, the execution of each prompt             *)
(* (executePrompt), the agent subprocess, the conversation tailer, the     *)
(* update relay, the permission server and cancel.                         *)
(*                                                                         *)
(* Every await of the source is a position (pc) of the flow that awaits;   *)
(* the code between two awaits is one action. Awaits between which the     *)
(* session is not touched are one position. What a finished call leaves    *)
(* behind and nothing can read any more (its locals, its ChildProcess) is  *)
(* reset when the call returns.                                            *)
(***************************************************************************)
EXTENDS Integers, Sequences, FiniteSets, TLC

\* ---- bounds ----
MaxPrompts == 2      \* prompt() calls made on the session
MaxCancels == 1      \* cancel() calls made on the session
MaxStdout == 1       \* stdout chunks one subprocess writes
MaxTailEvents == 1   \* log events one tailer turns into notifications
MaxUpdates == 4      \* queueSessionUpdate calls made on the update chain
MaxToolUpdates == 3  \* tool-call notifications after which no log event is handled
MaxHistory == 2      \* messages pushed to one history array
MaxEvents == 4       \* log events handled by one session
ChunkBytes == 3      \* CHUNK_SIZE (64 KB), scaled to the logs of the model
MaxCalls == 2        \* prompt() calls made on one session
MaxRequests == 3     \* requests of the client handled by the session registry
MaxPosts == 2        \* POST /permission requests served by the bridge
MaxLoads == 2        \* loadSession / resumeSession calls made for one session id
MaxLoadCalls == 3    \* prompt() calls made for that session id
MaxArrays == 3       \* history arrays allocated (newSession, fork, /new)

Prompts == 1..MaxPrompts
Cancels == 1..MaxCancels

\* What the text of a prompt makes executePrompt do: "text" launches the
\* agent, "local" is a slash command answered locally (/help, /new, ...),
\* "resume" is /resume <n>, which runs `autohand resume` (runAutohandResume).
Kinds == {"text", "local", "resume"}

VARIABLES
  \* SessionState
  cancelled,          \* session.cancelled
  activeProcess,      \* session.activeProcess: 0 or the prompt whose child it is
  terminalHandle,     \* session.terminalHandle: 0 or the prompt that created it
  permissionServer,   \* session.permissionServer: 0 or the prompt that created it
  titleGenerated,     \* session.titleGenerated
  useClientTerminal,  \* session.useClientTerminal && clientCapabilities.terminal
  updateQueue,        \* session.updateQueue: notifications not yet sent, in order
  \* prompt() calls, numbered in the order they were made
  pc,                 \* position of the call / of its executePrompt
  result,             \* state of the promise prompt() returned (thisPrompt)
  mainAwait,          \* the queued update executePrompt awaits: none/pending/ok/fail
  exitResult,         \* exitResult of executePrompt
  \* child processes, one per prompt at most
  child,              \* none / running / code0 / code1 / signal / error
  killed,             \* ChildProcess.killed
  signals,            \* signals delivered to the running child
  stdoutCount,        \* chunks written so far
  \* permission servers, one per prompt at most
  listening,          \* the server the prompt created accepts requests
  \* trackConversation, one per prompt at most
  tail,               \* none / run / runAwait / finalAwait / done
  tailAborted,        \* tailAbort.signal.aborted
  tailEvents,         \* events turned into notifications so far
  \* cancel() calls, numbered in the order they were made
  cpc,                \* idle / stopping / done
  timer,              \* the setTimeout of the call is pending
  cTarget,            \* the child the call sent SIGTERM to, while its timer is pending
  \* what the client and the operating system have seen
  lastDelivered,      \* prompt of the notification delivered last (0: none yet)
  maxDelivered,       \* highest prompt a notification was delivered for
  cancelledAtExit,    \* session.cancelled when executePrompt saw its child's exit
  cancelWhileRunning, \* cancel() was called while the prompt's child ran
  cancelSeen,         \* when cancel() was called during the prompt's execution:
                      \* "before" the agent was launched, "after", or "none"
  \* session.updateQueue as the chain of promises it is (the update relay)
  updateChain,        \* one link per queueSessionUpdate call, in call order
  received,           \* links whose notification client.sessionUpdate was called with
  \* tool calls of the session (handleSessionMessage)
  toolCalls,          \* keys of session.toolCalls
  toolCallOutputs,    \* keys of session.toolCallOutputs
  streamingToolCalls, \* session.streamingToolCalls
  terminalToolCalls,  \* session.terminalToolCalls
  toolUpdates,        \* tool_call / tool_call_update notifications queued, in order
  rawOutput,          \* rawOutput of the tool_call_update a result queued last
  \* a session and its fork (unstable_forkSession)
  forked,             \* the fork is in this.sessions
  arrays,             \* the heap: array object -> its elements
  allocated,          \* array objects created so far
  history,            \* session.history: the array object the field refers to
  modeId,             \* session.modeId
  modelId,            \* session.modelId
  \* the conversation log and its tailers (trackConversation)
  run,                \* run -> where its executePrompt is
  snapshot,           \* run -> sessionsSnapshot: ids in index.json at its start
  logFile,            \* session dir -> 0 (no dir yet) or the text its log will hold
  written,            \* session dir -> bytes of conversation.jsonl written so far
  indexed,            \* session ids listed in index.json
  sizeAtExit,         \* run -> size of its child's log when the child exited
  tpc,                \* run -> where its trackConversation is ("done": it
                      \* returned after the signal was aborted; "gaveUp": it
                      \* returned after 40 attempts to find the log)
  handle,             \* run -> the log its readConversation has open (0: none)
  position,           \* run -> position argument of its fileHandle.read
  bytesToRead,        \* run -> length argument of its fileHandle.read
  conversationPath,   \* session.conversationPath (0: undefined)
  conversationOffset, \* session.conversationOffset
  conversationRemainder, \* session.conversationRemainder
  events,             \* lines handed to handleSessionMessage: log, end byte, text
  newUsed,            \* /new was run
  \* the prompt queues of two sessions (prompt)
  calls,              \* session id -> its prompt() calls in order, each
                      \* "queued", "executing" or how thisPrompt settled
  \* the session registry and the requests that change a session
  sessions,           \* keys of this.sessions
  modeOf,             \* session id -> session.modeId
  modelOf,            \* session id -> session.modelId
  configOf,           \* session id -> config option id -> currentValue
  chained,            \* session id -> prompts chained on session.promptQueue
  env,                \* process.env: variable -> value or "unset"
  notifications,      \* session updates queued for the client, in order
  requests,           \* requests handled
  lastRequest,        \* the request handled last
  lastReply,          \* its outcome
  \* the permission bridge (permission-server.ts)
  posts,              \* POST /permission requests received
  post,               \* the request being served, or served last
  bridge,             \* "idle", or "asked": awaiting client.requestPermission
  clientCalls,        \* client.requestPermission calls made
  outcome,            \* what the client answered to the last call
  decision,           \* the body of the last response
  \* slash commands (parseSlashCommand, handleSlashCommand)
  userText,           \* the text of the prompt being executed
  slashPc,            \* where executePrompt is from the slash-command check on
  stopReason,         \* how the prompt settled, or "pending"
  spawned,            \* the subprocess the prompt launched, or "none"
  selection,          \* what the model or mode picker returned, or "none"
  \* one session id across loadSession / resumeSession
  registered,         \* the SessionState this.sessions holds for the id
  promptQueue,        \* SessionState -> the call its promptQueue is (0: the
                      \* resolved promise it was created with)
  loadCalls           \* prompt() calls for the id, in order: the call each was
                      \* chained on (0: none) and its state

sessionVars == <<cancelled, activeProcess, terminalHandle, permissionServer,
                 titleGenerated, useClientTerminal, updateQueue>>
promptVars == <<pc, result, mainAwait, exitResult>>
childVars == <<child, killed, signals, stdoutCount>>
tailVars == <<tail, tailAborted, tailEvents>>
cancelVars == <<cpc, timer, cTarget>>
deliveredVars == <<lastDelivered, maxDelivered>>
seenVars == <<cancelledAtExit, cancelWhileRunning, cancelSeen>>
\* The prompt flow of the session: what prompt(), executePrompt, cancel(),
\* the child, the tailer and the relay of the actions below read and write.
flowVars == <<sessionVars, promptVars, childVars, listening, tailVars,
              cancelVars, deliveredVars, seenVars>>
relayVars == <<updateChain, received>>
\* What the parts modelled in detail further down keep for themselves.
toolVars == <<toolCalls, toolCallOutputs, streamingToolCalls, terminalToolCalls,
              toolUpdates, rawOutput>>
forkVars == <<forked, arrays, allocated, history, modeId, modelId>>
queueVars == <<calls>>
loadVars == <<registered, promptQueue, loadCalls>>
slashVars == <<userText, slashPc, stopReason, spawned, selection>>
permVars == <<posts, post, bridge, clientCalls, outcome, decision>>
manageVars == <<sessions, modeOf, modelOf, configOf, chained, env,
                notifications, requests, lastRequest, lastReply>>
logVars == <<run, snapshot, logFile, written, indexed, sizeAtExit, tpc, handle,
             position, bytesToRead, conversationPath, conversationOffset,
             conversationRemainder, events, newUsed>>
detailVars == <<relayVars, toolVars, forkVars, logVars, queueVars, manageVars, permVars, slashVars, loadVars>>
vars == <<flowVars, detailVars>>

\* ---- the prompt queue (promise chain) ----

\* State of a promise as .then() sees it.
PromiseState(r) ==
  IF r = "pending" THEN "pending"
  ELSE IF r = "rejected" THEN "rejected" ELSE "fulfilled"

\* session.promptQueue = thisPrompt, without the catch.
CatchNothing(st) == st

\* thisPrompt.catch(() => ({ stopReason: "end_turn" })): what session.promptQueue
\* becomes after prompt p.
CatchEndTurn(st) == IF st = "rejected" THEN "fulfilled" ELSE st

\* prompt() that calls executePrompt without chaining it on the queue.
PreviousPromptUnchained(p) == "fulfilled"

\* prompt() that chains on a promise settled as soon as the previous prompt
\* has begun to execute, not when it has settled.
PreviousPromptNotAwaited(p) ==
  IF p = 1 \/ pc[p - 1] \notin {"idle", "queued"} THEN "fulfilled" ELSE "pending"

\* previousPrompt of prompt p: session.promptQueue when prompt() was called.
PreviousPrompt(p) ==
  IF p = 1 THEN "fulfilled" ELSE CatchEndTurn(PromiseState(result[p - 1]))

\* executePrompt of p has been entered and has not returned or thrown.
Executing(p) == pc[p] \notin {"idle", "queued", "done", "skipped"}

\* ---- the update relay ----

\* queueSessionUpdate / queueTextUpdate / queueThoughtUpdate: append to the
\* chain; aw names the flow that awaits the returned promise.
Enqueue(q, p, aw) == Append(q, [p |-> p, aw |-> aw])

Init ==
  /\ cancelled = FALSE
  /\ activeProcess = 0
  /\ terminalHandle = 0
  /\ permissionServer = 0
  /\ titleGenerated = FALSE
  /\ useClientTerminal \in BOOLEAN
  /\ updateQueue = <<>>
  /\ pc = [p \in Prompts |-> "idle"]
  /\ result = [p \in Prompts |-> "pending"]
  /\ mainAwait = [p \in Prompts |-> "none"]
  /\ exitResult = [p \in Prompts |-> "none"]
  /\ child = [p \in Prompts |-> "none"]
  /\ killed = [p \in Prompts |-> FALSE]
  /\ signals = [p \in Prompts |-> {}]
  /\ stdoutCount = [p \in Prompts |-> 0]
  /\ listening = [p \in Prompts |-> FALSE]
  /\ tail = [p \in Prompts |-> "none"]
  /\ tailAborted = [p \in Prompts |-> FALSE]
  /\ tailEvents = [p \in Prompts |-> 0]
  /\ cpc = [c \in Cancels |-> "idle"]
  /\ timer = [c \in Cancels |-> FALSE]
  /\ cTarget = [c \in Cancels |-> 0]
  /\ lastDelivered = 0
  /\ maxDelivered = 0
  /\ cancelledAtExit = [p \in Prompts |-> FALSE]
  /\ cancelWhileRunning = [p \in Prompts |-> FALSE]
  /\ cancelSeen = [p \in Prompts |-> "none"]
  /\ updateChain = <<>>
  /\ received = <<>>
  /\ toolCalls = {}
  /\ toolCallOutputs = {}
  /\ streamingToolCalls = {}
  /\ terminalToolCalls = {}
  /\ toolUpdates = <<>>
  /\ rawOutput = <<>>
  /\ forked = FALSE
  /\ arrays = [a \in 1..MaxArrays |-> <<>>]
  /\ allocated = 1
  /\ history = [s \in {"parent", "fork"} |-> IF s = "parent" THEN 1 ELSE 0]
  /\ modeId = [s \in {"parent", "fork"} |-> IF s = "parent" THEN "default" ELSE "none"]
  /\ modelId = [s \in {"parent", "fork"} |-> "none"]
  /\ run = [t \in {1, 2} |-> "idle"]
  /\ snapshot = [t \in {1, 2} |-> {}]
  /\ logFile = [d \in {1, 2} |-> 0]
  /\ written = [d \in {1, 2} |-> 0]
  /\ indexed = {}
  /\ sizeAtExit = [t \in {1, 2} |-> 0]
  /\ tpc = [t \in {1, 2} |-> "none"]
  /\ handle = [t \in {1, 2} |-> 0]
  /\ position = [t \in {1, 2} |-> 0]
  /\ bytesToRead = [t \in {1, 2} |-> 0]
  /\ conversationPath = 0
  /\ conversationOffset = 0
  /\ conversationRemainder = <<>>
  /\ events = <<>>
  /\ newUsed = FALSE
  /\ calls = [s \in {"s1", "s2"} |-> <<>>]
  /\ sessions = {}
  /\ modeOf = [id \in {"k0", "k1", "k2"} |-> "none"]
  /\ modelOf = [id \in {"k0", "k1", "k2"} |-> "none"]
  /\ configOf = [id \in {"k0", "k1", "k2"} |->
                  [c \in {"permission_mode", "dry_run"} |-> "none"]]
  /\ chained = [id \in {"k0", "k1", "k2"} |-> 0]
  /\ env = [v \in {"AUTOHAND_PERMISSION_MODE", "AUTOHAND_DRY_RUN"} |-> "unset"]
  /\ notifications = <<>>
  /\ requests = 0
  /\ lastRequest = [op |-> "none"]
  /\ lastReply = "none"
  /\ posts = 0
  /\ post = [type |-> "none", choices |-> [given |-> FALSE, names |-> <<>>]]
  /\ bridge = "idle"
  /\ clientCalls = 0
  /\ outcome = [outcome |-> "none"]
  /\ decision = [status |-> "none"]
  /\ userText = [slash |-> FALSE, word |-> "", args |-> 0]
  /\ slashPc = "idle"
  /\ stopReason = "pending"
  /\ spawned = "none"
  /\ selection = "none"
  /\ registered = 1
  /\ promptQueue = [o \in 1..(MaxLoads + 1) |-> 0]
  /\ loadCalls = <<>>

\* ---- prompt() and executePrompt ----

\* return / throw of executePrompt: thisPrompt settles with r. The locals of
\* the call and its ChildProcess become unreachable; a tailer that has not
\* finished stays.
Return(p, r) ==
  /\ pc' = [pc EXCEPT ![p] = "done"]
  /\ result' = [result EXCEPT ![p] = r]
  /\ mainAwait' = [mainAwait EXCEPT ![p] = "none"]
  /\ exitResult' = [exitResult EXCEPT ![p] = "none"]
  /\ child' = [child EXCEPT ![p] = "none"]
  /\ killed' = [killed EXCEPT ![p] = FALSE]
  /\ signals' = [signals EXCEPT ![p] = {}]
  /\ stdoutCount' = [stdoutCount EXCEPT ![p] = 0]
  /\ cancelledAtExit' = [cancelledAtExit EXCEPT ![p] = FALSE]
  /\ cancelWhileRunning' = [cancelWhileRunning EXCEPT ![p] = FALSE]
  /\ cancelSeen' = [cancelSeen EXCEPT ![p] = "none"]
  /\ tail' = [tail EXCEPT ![p] = IF @ = "done" THEN "none" ELSE @]

\* executePrompt goes on to position at; its awaited update is consumed.
Goto(p, at) ==
  /\ pc' = [pc EXCEPT ![p] = at]
  /\ mainAwait' = [mainAwait EXCEPT ![p] = "none"]

\* executePrompt queues an update and awaits it at position at.
AwaitUpdate(p, at) ==
  /\ updateQueue' = Enqueue(updateQueue, p, "main")
  /\ mainAwait' = [mainAwait EXCEPT ![p] = "pending"]
  /\ pc' = [pc EXCEPT ![p] = at]

\* prompt(): the call is chained on session.promptQueue.
Prompt(p) ==
  /\ pc[p] = "idle"
  /\ \A q \in Prompts : q < p => pc[q] # "idle"
  /\ pc' = [pc EXCEPT ![p] = "queued"]
  /\ UNCHANGED <<sessionVars, result, mainAwait, exitResult, childVars,
                 listening, tailVars, cancelVars, deliveredVars, seenVars>>
  /\ UNCHANGED detailVars

\* previousPrompt.then(() => this.executePrompt(session, params)) fires:
\* executePrompt up to its first await (the workspace check), or the
\* rejection of previousPrompt passed on without executing.
Start(p) ==
  /\ pc[p] = "queued"
  /\ PreviousPrompt(p) # "pending"
  /\ IF PreviousPrompt(p) = "rejected"
     THEN /\ pc' = [pc EXCEPT ![p] = "skipped"]
          /\ result' = [result EXCEPT ![p] = "rejected"]
          /\ UNCHANGED <<updateQueue, mainAwait>>
     ELSE /\ UNCHANGED result
          /\ \E workspaceExists \in BOOLEAN :
               IF workspaceExists
               THEN /\ pc' = [pc EXCEPT ![p] = "resolve"]
                    /\ UNCHANGED <<updateQueue, mainAwait>>
               ELSE AwaitUpdate(p, "wsAwait")
  /\ UNCHANGED <<cancelled, activeProcess, terminalHandle, permissionServer,
                 titleGenerated, useClientTerminal, exitResult, childVars,
                 listening, tailVars, cancelVars, deliveredVars, seenVars>>
  /\ UNCHANGED detailVars

\* pcs at which executePrompt awaits a queued update (await this.queue...).
UpdateAwaitPcs == {"wsAwait", "titleAwait", "slashAwait", "configAwait",
                   "termToolAwait", "termTextAwait", "termUpdAwait",
                   "errAwait", "codeAwait", "sigAwait"}

\* The promise of an awaited update rejected (client.sessionUpdate failed):
\* nothing in executePrompt or handleSlashCommand catches it.
UpdateRejected(p) ==
  /\ pc[p] \in UpdateAwaitPcs
  /\ mainAwait[p] = "fail"
  /\ Return(p, "rejected")
  /\ UNCHANGED <<sessionVars, listening, tailAborted, tailEvents, cancelVars,
                 deliveredVars>>
  /\ UNCHANGED detailVars

\* "Workspace not found" or the text of a locally handled slash command was
\* sent: return end_turn.
LocalReplySent(p) ==
  /\ pc[p] \in {"wsAwait", "slashAwait"}
  /\ mainAwait[p] = "ok"
  /\ Return(p, "end_turn")
  /\ UNCHANGED <<sessionVars, listening, tailAborted, tailEvents, cancelVars,
                 deliveredVars>>
  /\ UNCHANGED detailVars

\* spawn(): the child runs, or could not be launched ("error" event).
Spawn(p, launched) ==
  /\ child' = [child EXCEPT ![p] = IF launched THEN "running" ELSE "error"]
  /\ activeProcess' = p

\* executePrompt that leaves session.cancelled as it finds it.
CancelledKept == cancelled

\* session.cancelled = false before the agent is launched.
CancelledAtLaunch == FALSE

\* parseSlashCommand / handleSlashCommand and, for a prompt passed to the
\* agent, the start of the run: history.push, session.cancelled = false,
\* createPermissionServer when the permission mode is external.
Dispatch(p) ==
  \E k \in Kinds :
    CASE k = "local" ->
           /\ AwaitUpdate(p, "slashAwait")
           /\ UNCHANGED <<cancelled, activeProcess, child>>
      [] k = "resume" ->
           /\ \E launched \in BOOLEAN : Spawn(p, launched)
           /\ Goto(p, "resumeRun")
           /\ UNCHANGED <<cancelled, updateQueue>>
      [] k = "text" ->
           /\ cancelled' = CancelledAtLaunch
           /\ \E external \in BOOLEAN :
                Goto(p, IF external THEN "permStart" ELSE "snapshot")
           /\ UNCHANGED <<updateQueue, activeProcess, child>>


\* resolvePromptBlocks returned (it catches every error of the client's
\* readTextFile); the session title is generated from the first prompt, or
\* the prompt is dispatched.
ResolveDone(p) ==
  /\ pc[p] = "resolve"
  /\ IF ~titleGenerated
     THEN /\ titleGenerated' = TRUE
          /\ AwaitUpdate(p, "titleAwait")
          /\ UNCHANGED <<cancelled, activeProcess, child>>
     ELSE /\ Dispatch(p)
          /\ UNCHANGED titleGenerated
  /\ UNCHANGED <<terminalHandle, permissionServer, useClientTerminal, result,
                 exitResult, killed, signals, stdoutCount, listening, tailVars,
                 cancelVars, deliveredVars, seenVars>>
  /\ UNCHANGED detailVars

\* session_info_update was sent: the prompt is dispatched.
TitleSent(p) ==
  /\ pc[p] = "titleAwait"
  /\ mainAwait[p] = "ok"
  /\ Dispatch(p)
  /\ UNCHANGED <<terminalHandle, permissionServer, titleGenerated,
                 useClientTerminal, result, exitResult, killed, signals,
                 stdoutCount, listening, tailVars, cancelVars, deliveredVars,
                 seenVars>>
  /\ UNCHANGED detailVars

Exited(p) == child[p] \in {"code0", "code1", "signal", "error"}

\* runAutohandResume: the resume child closed (or failed to launch);
\* handleSlashCommand returns handled, executePrompt returns end_turn.
ResumeClosed(p) ==
  /\ pc[p] = "resumeRun"
  /\ Exited(p)
  /\ activeProcess' = 0
  /\ Return(p, "end_turn")
  /\ UNCHANGED <<cancelled, terminalHandle, permissionServer, titleGenerated,
                 useClientTerminal, updateQueue, listening, tailAborted,
                 tailEvents, cancelVars, deliveredVars>>
  /\ UNCHANGED detailVars

\* createPermissionServer settled: the server listens, or failed to start
\* (logged, the run goes on without it).
PermissionServerStarted(p) ==
  /\ pc[p] = "permStart"
  /\ \E ok \in BOOLEAN :
       IF ok
       THEN /\ listening' = [listening EXCEPT ![p] = TRUE]
            /\ permissionServer' = p
       ELSE UNCHANGED <<listening, permissionServer>>
  /\ pc' = [pc EXCEPT ![p] = "snapshot"]
  /\ UNCHANGED <<cancelled, activeProcess, terminalHandle, titleGenerated,
                 useClientTerminal, updateQueue, result, mainAwait, exitResult,
                 childVars, tailVars, cancelVars, deliveredVars, seenVars>>
  /\ UNCHANGED detailVars

\* trackConversation is started; then the agent is run in a client terminal
\* (createTerminal is called) or spawned as a child of this process.
Launch(p) ==
  /\ tail' = [tail EXCEPT ![p] = "run"]
  /\ IF useClientTerminal
     THEN /\ Goto(p, "termCreate")
          /\ UNCHANGED <<activeProcess, child>>
     ELSE /\ \E launched \in BOOLEAN : Spawn(p, launched)
          /\ Goto(p, "exitWait")


\* snapshotSessionIds returned; a missing config file is reported, or the
\* agent is launched.
SnapshotDone(p) ==
  /\ pc[p] = "snapshot"
  /\ \E configExists \in BOOLEAN :
       IF configExists
       THEN /\ Launch(p)
            /\ UNCHANGED updateQueue
       ELSE /\ AwaitUpdate(p, "configAwait")
            /\ UNCHANGED <<tail, activeProcess, child>>
  /\ UNCHANGED <<cancelled, terminalHandle, permissionServer, titleGenerated,
                 useClientTerminal, result, exitResult, killed, signals,
                 stdoutCount, listening, tailAborted, tailEvents, cancelVars,
                 deliveredVars, seenVars>>
  /\ UNCHANGED detailVars

\* "Autohand config not found" was sent: the agent is launched.
ConfigReported(p) ==
  /\ pc[p] = "configAwait"
  /\ mainAwait[p] = "ok"
  /\ Launch(p)
  /\ UNCHANGED <<cancelled, terminalHandle, permissionServer, titleGenerated,
                 useClientTerminal, updateQueue, result, exitResult, killed,
                 signals, stdoutCount, listening, tailAborted, tailEvents,
                 cancelVars, deliveredVars, seenVars>>
  /\ UNCHANGED detailVars

\* ---- the agent in a client terminal (useClientTerminal) ----

StopReason == IF cancelled THEN "cancelled" ELSE "end_turn"

\* client.createTerminal settled; on success the tool_call is queued.
TerminalCreated(p) ==
  /\ pc[p] = "termCreate"
  /\ \E ok \in BOOLEAN :
       IF ok
       THEN /\ terminalHandle' = p
            /\ AwaitUpdate(p, "termToolAwait")
            /\ UNCHANGED <<result, exitResult, childVars, seenVars, tail>>
       ELSE /\ Return(p, "rejected")
            /\ UNCHANGED <<terminalHandle, updateQueue>>
  /\ UNCHANGED <<cancelled, activeProcess, permissionServer, titleGenerated,
                 useClientTerminal, listening, tailAborted, tailEvents,
                 cancelVars, deliveredVars>>
  /\ UNCHANGED detailVars

\* The tool_call was sent: terminal.waitForExit() is awaited.
TerminalToolCallSent(p) ==
  /\ pc[p] = "termToolAwait"
  /\ mainAwait[p] = "ok"
  /\ Goto(p, "termExit")
  /\ UNCHANGED <<sessionVars, result, exitResult, childVars, listening,
                 tailVars, cancelVars, deliveredVars, seenVars>>
  /\ UNCHANGED detailVars

\* terminal.waitForExit() and terminal.currentOutput() settled, then
\* terminal.release(): the handle is cleared and the output text, if any,
\* then the tool_call_update are queued. Any of the three calls may fail.
TerminalExited(p) ==
  /\ pc[p] = "termExit"
  /\ \E ok \in BOOLEAN :
       IF ok
       THEN /\ terminalHandle' = 0
            /\ \E hasOutput \in BOOLEAN :
                 AwaitUpdate(p, IF hasOutput THEN "termTextAwait" ELSE "termUpdAwait")
            /\ UNCHANGED <<result, exitResult, childVars, seenVars, tail>>
       ELSE /\ Return(p, "rejected")
            /\ UNCHANGED <<terminalHandle, updateQueue>>
  /\ UNCHANGED <<cancelled, activeProcess, permissionServer, titleGenerated,
                 useClientTerminal, listening, tailAborted, tailEvents,
                 cancelVars, deliveredVars>>
  /\ UNCHANGED detailVars

\* The output text was sent: the tool_call_update is queued.
TerminalTextSent(p) ==
  /\ pc[p] = "termTextAwait"
  /\ mainAwait[p] = "ok"
  /\ AwaitUpdate(p, "termUpdAwait")
  /\ UNCHANGED <<cancelled, activeProcess, terminalHandle, permissionServer,
                 titleGenerated, useClientTerminal, result, exitResult,
                 childVars, listening, tailVars, cancelVars, deliveredVars,
                 seenVars>>
  /\ UNCHANGED detailVars

\* tailAbort.abort(): the signal is seen by a tailer that still runs.
Abort(p) ==
  tailAborted' = [tailAborted EXCEPT ![p] = tail[p] \notin {"none", "done"}]

\* The tool_call_update was sent: tailAbort.abort(); await tailPromise.
TerminalUpdateSent(p) ==
  /\ pc[p] = "termUpdAwait"
  /\ mainAwait[p] = "ok"
  /\ Abort(p)
  /\ Goto(p, "termTailWait")
  /\ UNCHANGED <<sessionVars, result, exitResult, childVars, listening, tail,
                 tailEvents, cancelVars, deliveredVars, seenVars>>
  /\ UNCHANGED detailVars

\* tailPromise settled: the permission server is stopped, then the stop
\* reason is returned.
TerminalTailDone(p) ==
  /\ pc[p] = "termTailWait"
  /\ tail[p] = "done"
  /\ IF permissionServer # 0
     THEN /\ listening' = [listening EXCEPT ![permissionServer] = FALSE]
          /\ pc' = [pc EXCEPT ![p] = "termPermStop"]
          /\ UNCHANGED <<result, mainAwait, exitResult, childVars, seenVars, tail>>
     ELSE /\ Return(p, StopReason)
          /\ UNCHANGED listening
  /\ UNCHANGED <<sessionVars, tailAborted, tailEvents, cancelVars, deliveredVars>>
  /\ UNCHANGED detailVars

\* permissionServer.stop() settled (terminal path).
TerminalServerStopped(p) ==
  /\ pc[p] = "termPermStop"
  /\ permissionServer' = 0
  /\ Return(p, StopReason)
  /\ UNCHANGED <<cancelled, activeProcess, terminalHandle, titleGenerated,
                 useClientTerminal, updateQueue, listening, tailAborted,
                 tailEvents, cancelVars, deliveredVars>>
  /\ UNCHANGED detailVars

\* ---- the agent as a child process ----

\* One of close / exit / error resolved the exit promise: listeners are
\* removed, session.activeProcess is cleared, the tailer is aborted.
ExitObserved(p) ==
  /\ pc[p] = "exitWait"
  /\ Exited(p)
  /\ exitResult' = [exitResult EXCEPT ![p] = child[p]]
  /\ activeProcess' = 0
  /\ Abort(p)
  /\ pc' = [pc EXCEPT ![p] = "tailWait"]
  /\ cancelledAtExit' = [cancelledAtExit EXCEPT ![p] = cancelled]
  /\ UNCHANGED <<cancelled, terminalHandle, permissionServer, titleGenerated,
                 useClientTerminal, updateQueue, result, mainAwait, childVars,
                 listening, tail, tailEvents, cancelVars, deliveredVars,
                 cancelWhileRunning, cancelSeen>>
  /\ UNCHANGED detailVars

\* sleep(2000) of the Promise.race: in this untimed model it may have elapsed
\* whenever the race is awaited.
TailWaitTimeout == TRUE

\* Clean up permission server, then return end_turn.
Cleanup(p) ==
  IF permissionServer # 0
  THEN /\ listening' = [listening EXCEPT ![permissionServer] = FALSE]
       /\ Goto(p, "permStop")
       /\ UNCHANGED <<result, exitResult, childVars, seenVars, tail>>
  ELSE /\ Return(p, "end_turn")
       /\ UNCHANGED listening

\* The race of tailPromise and the sleep settled: cancelled is checked, then
\* the first exit report is queued (launch failure, exit code, signal).
TailWaitOver(p) ==
  /\ pc[p] = "tailWait"
  /\ tail[p] \in {"none", "done"} \/ TailWaitTimeout
  /\ IF cancelled
     THEN /\ Return(p, "cancelled")
          /\ UNCHANGED <<updateQueue, listening>>
     ELSE IF exitResult[p] = "code0"
     THEN /\ Cleanup(p)
          /\ UNCHANGED updateQueue
     ELSE /\ AwaitUpdate(p, CASE exitResult[p] = "error" -> "errAwait"
                              [] exitResult[p] = "code1" -> "codeAwait"
                              [] OTHER -> "sigAwait")
          /\ UNCHANGED <<result, exitResult, childVars, seenVars, tail, listening>>
  /\ UNCHANGED <<cancelled, activeProcess, terminalHandle, permissionServer,
                 titleGenerated, useClientTerminal, tailAborted, tailEvents,
                 cancelVars, deliveredVars>>
  /\ UNCHANGED detailVars

\* "Failed to launch Autohand" was sent; the error event resolved the exit
\* promise with code 1, so "Autohand exited with code 1" is queued next.
LaunchFailureReported(p) ==
  /\ pc[p] = "errAwait"
  /\ mainAwait[p] = "ok"
  /\ AwaitUpdate(p, "codeAwait")
  /\ UNCHANGED <<cancelled, activeProcess, terminalHandle, permissionServer,
                 titleGenerated, useClientTerminal, result, exitResult,
                 childVars, listening, tailVars, cancelVars, deliveredVars,
                 seenVars>>
  /\ UNCHANGED detailVars

\* The exit code or the signal was reported: clean up and return.
ExitReported(p) ==
  /\ pc[p] \in {"codeAwait", "sigAwait"}
  /\ mainAwait[p] = "ok"
  /\ Cleanup(p)
  /\ UNCHANGED <<sessionVars, tailAborted, tailEvents, cancelVars, deliveredVars>>
  /\ UNCHANGED detailVars

\* permissionServer.stop() settled: return end_turn.
PermissionServerStopped(p) ==
  /\ pc[p] = "permStop"
  /\ permissionServer' = 0
  /\ Return(p, "end_turn")
  /\ UNCHANGED <<cancelled, activeProcess, terminalHandle, titleGenerated,
                 useClientTerminal, updateQueue, listening, tailAborted,
                 tailEvents, cancelVars, deliveredVars>>
  /\ UNCHANGED detailVars

\* ---- the child process ----

\* onStdout (executePrompt) / onChunk (runAutohandResume): the text is queued
\* and not awaited (void this.queueTextUpdate).
ChildStdout(p) ==
  /\ child[p] = "running"
  /\ pc[p] \in {"exitWait", "resumeRun"}
  /\ stdoutCount[p] < MaxStdout
  /\ stdoutCount' = [stdoutCount EXCEPT ![p] = @ + 1]
  /\ updateQueue' = Enqueue(updateQueue, p, "none")
  /\ UNCHANGED <<cancelled, activeProcess, terminalHandle, permissionServer,
                 titleGenerated, useClientTerminal, promptVars, child, killed,
                 signals, listening, tailVars, cancelVars, deliveredVars,
                 seenVars>>
  /\ UNCHANGED detailVars

\* The process ends: by itself with an exit code, or by a signal it was sent
\* (SIGKILL cannot be handled; SIGTERM can be ignored or handled).
ChildExit(p) ==
  /\ child[p] = "running"
  /\ \E how \in {"code0", "code1", "signal"} :
       /\ how = "signal" => signals[p] # {}
       /\ "SIGKILL" \in signals[p] => how = "signal"
       /\ child' = [child EXCEPT ![p] = how]
  /\ UNCHANGED <<sessionVars, promptVars, killed, signals, stdoutCount,
                 listening, tailVars, cancelVars, deliveredVars, seenVars>>
  /\ UNCHANGED detailVars

\* ChildProcess.kill(sig): the signal is sent if the process was launched;
\* killed is set when the signal was sent, whether or not the process ends.
\* A process that already ended is not affected.
Kill(p, sig) ==
  /\ signals' = [signals EXCEPT
                   ![p] = IF child[p] = "running" THEN @ \cup {sig} ELSE @]
  /\ killed' = [killed EXCEPT ![p] = @ \/ child[p] # "error"]

\* ---- trackConversation ----

\* trackConversation returns.
TailEnd(p) ==
  /\ tail' = [tail EXCEPT ![p] = IF Executing(p) THEN "done" ELSE "none"]
  /\ tailAborted' = [tailAborted EXCEPT ![p] = FALSE]
  /\ tailEvents' = [tailEvents EXCEPT ![p] = 0]

\* The log was found and a readConversation of the loop finds an event: its
\* notification is queued and awaited.
TailRead(p) ==
  /\ tail[p] = "run"
  /\ ~tailAborted[p]
  /\ tailEvents[p] < MaxTailEvents
  /\ tailEvents' = [tailEvents EXCEPT ![p] = @ + 1]
  /\ updateQueue' = Enqueue(updateQueue, p, "tail")
  /\ tail' = [tail EXCEPT ![p] = "runAwait"]
  /\ UNCHANGED <<cancelled, activeProcess, terminalHandle, permissionServer,
                 titleGenerated, useClientTerminal, promptVars, childVars,
                 listening, tailAborted, cancelVars, deliveredVars, seenVars>>
  /\ UNCHANGED detailVars

\* waitForConversationPath made its 40 attempts and found no new log.
TailGiveUp(p) ==
  /\ tail[p] = "run"
  /\ ~tailAborted[p]
  /\ tailEvents[p] = 0
  /\ TailEnd(p)
  /\ UNCHANGED <<sessionVars, promptVars, childVars, listening, cancelVars,
                 deliveredVars, seenVars>>
  /\ UNCHANGED detailVars

\* The abort is seen: waitForConversationPath returns null, or the log is
\* known and the final readConversation is made, which may find an event.
TailStop(p) ==
  /\ tail[p] = "run"
  /\ tailAborted[p]
  /\ \E event \in BOOLEAN :
       IF event /\ tailEvents[p] < MaxTailEvents
       THEN /\ tailEvents' = [tailEvents EXCEPT ![p] = @ + 1]
            /\ updateQueue' = Enqueue(updateQueue, p, "tail")
            /\ tail' = [tail EXCEPT ![p] = "finalAwait"]
            /\ UNCHANGED tailAborted
       ELSE /\ TailEnd(p)
            /\ UNCHANGED updateQueue
  /\ UNCHANGED <<cancelled, activeProcess, terminalHandle, permissionServer,
                 titleGenerated, useClientTerminal, promptVars, childVars,
                 listening, cancelVars, deliveredVars, seenVars>>
  /\ UNCHANGED detailVars

\* ---- the update relay: client.sessionUpdate settles ----

\* The head of the chain is sent (or the call fails); the chain goes on with
\* the next either way (.catch(() => undefined)), and the flow awaiting the
\* promise sees the outcome. A failure inside readConversation is caught
\* there and ends that read.
Deliver ==
  /\ updateQueue # <<>>
  /\ LET item == Head(updateQueue) IN
     \E ok \in BOOLEAN :
       /\ updateQueue' = Tail(updateQueue)
       /\ lastDelivered' = IF ok THEN item.p ELSE lastDelivered
       /\ maxDelivered' = IF ok /\ item.p > maxDelivered THEN item.p
                          ELSE maxDelivered
       /\ mainAwait' = IF item.aw = "main"
                       THEN [mainAwait EXCEPT ![item.p] = IF ok THEN "ok" ELSE "fail"]
                       ELSE mainAwait
       /\ IF item.aw = "tail" /\ tail[item.p] = "finalAwait"
          THEN TailEnd(item.p)
          ELSE /\ tail' = IF item.aw = "tail"
                          THEN [tail EXCEPT ![item.p] = "run"] ELSE tail
               /\ UNCHANGED <<tailAborted, tailEvents>>
  /\ UNCHANGED <<cancelled, activeProcess, terminalHandle, permissionServer,
                 titleGenerated, useClientTerminal, pc, result, exitResult,
                 childVars, listening, cancelVars, seenVars>>
  /\ UNCHANGED detailVars

\* ---- cancel() ----

\* cancel() that sets the timer and leaves every signal to it.
CancelKillDeferred(c) ==
  /\ cpc' = [cpc EXCEPT ![c] = "done"]
  /\ UNCHANGED <<signals, killed>>
  /\ IF terminalHandle # 0 \/ activeProcess = 0
     THEN UNCHANGED <<timer, cTarget>>
     ELSE /\ timer' = [timer EXCEPT ![c] = TRUE]
          /\ cTarget' = [cTarget EXCEPT ![c] = activeProcess]

\* cancel() from the terminalHandle check on: the client terminal is killed,
\* or SIGTERM is sent to session.activeProcess and the SIGKILL timer is set.
CancelKill(c) ==
  /\ cpc' = [cpc EXCEPT ![c] = "done"]
  /\ IF terminalHandle # 0 \/ activeProcess = 0
     THEN UNCHANGED <<timer, cTarget, signals, killed>>
     ELSE /\ Kill(activeProcess, "SIGTERM")
          /\ timer' = [timer EXCEPT ![c] = TRUE]
          /\ cTarget' = [cTarget EXCEPT ![c] = activeProcess]

\* Where executePrompt is between its entry and the launch of the agent.
BeforeLaunchPcs == {"resolve", "titleAwait", "permStart", "snapshot",
                    "configAwait"}

\* cancel() up to its first await: session.cancelled = true, then the
\* permission server, if any, is stopped (awaited).
Cancel(c) ==
  /\ cpc[c] = "idle"
  /\ \A d \in Cancels : d < c => cpc[d] # "idle"
  /\ cancelled' = TRUE
  /\ cancelWhileRunning' =
       [p \in Prompts |-> cancelWhileRunning[p]
                          \/ (activeProcess = p /\ child[p] = "running")]
  /\ cancelSeen' =
       [p \in Prompts |->
          IF ~Executing(p) THEN cancelSeen[p]
          ELSE IF pc[p] \in BeforeLaunchPcs THEN "before" ELSE "after"]
  /\ IF permissionServer # 0
     THEN /\ listening' = [listening EXCEPT ![permissionServer] = FALSE]
          /\ cpc' = [cpc EXCEPT ![c] = "stopping"]
          /\ UNCHANGED <<timer, cTarget, signals, killed>>
     ELSE /\ CancelKill(c)
          /\ UNCHANGED listening
  /\ UNCHANGED <<activeProcess, terminalHandle, permissionServer,
                 titleGenerated, useClientTerminal, updateQueue, promptVars,
                 child, stdoutCount, tailVars, deliveredVars, cancelledAtExit>>
  /\ UNCHANGED detailVars

\* permissionServer.stop() settled in cancel(): session.permissionServer is
\* cleared and the call goes on.
CancelServerStopped(c) ==
  /\ cpc[c] = "stopping"
  /\ permissionServer' = 0
  /\ CancelKill(c)
  /\ UNCHANGED <<cancelled, activeProcess, terminalHandle, titleGenerated,
                 useClientTerminal, updateQueue, promptVars, child,
                 stdoutCount, listening, tailVars, deliveredVars, seenVars>>
  /\ UNCHANGED detailVars

\* The setTimeout callback of cancel(), 2000 ms later.
TimerFire(c) ==
  /\ timer[c]
  /\ timer' = [timer EXCEPT ![c] = FALSE]
  /\ cTarget' = [cTarget EXCEPT ![c] = 0]
  /\ IF activeProcess # 0 /\ ~killed[activeProcess]
     THEN Kill(activeProcess, "SIGKILL")
     ELSE UNCHANGED <<signals, killed>>
  /\ UNCHANGED <<sessionVars, promptVars, child, stdoutCount, listening,
                 tailVars, cpc, deliveredVars, seenVars>>
  /\ UNCHANGED detailVars

\* ---- the system ----

Next ==
  \/ \E p \in Prompts : Prompt(p)
  \/ \E p \in Prompts : Start(p)
  \/ \E p \in Prompts : UpdateRejected(p)
  \/ \E p \in Prompts : LocalReplySent(p)
  \/ \E p \in Prompts : ResolveDone(p)
  \/ \E p \in Prompts : TitleSent(p)
  \/ \E p \in Prompts : ResumeClosed(p)
  \/ \E p \in Prompts : PermissionServerStarted(p)
  \/ \E p \in Prompts : SnapshotDone(p)
  \/ \E p \in Prompts : ConfigReported(p)
  \/ \E p \in Prompts : TerminalCreated(p)
  \/ \E p \in Prompts : TerminalToolCallSent(p)
  \/ \E p \in Prompts : TerminalExited(p)
  \/ \E p \in Prompts : TerminalTextSent(p)
  \/ \E p \in Prompts : TerminalUpdateSent(p)
  \/ \E p \in Prompts : TerminalTailDone(p)
  \/ \E p \in Prompts : TerminalServerStopped(p)
  \/ \E p \in Prompts : ExitObserved(p)
  \/ \E p \in Prompts : TailWaitOver(p)
  \/ \E p \in Prompts : LaunchFailureReported(p)
  \/ \E p \in Prompts : ExitReported(p)
  \/ \E p \in Prompts : PermissionServerStopped(p)
  \/ \E p \in Prompts : ChildStdout(p)
  \/ \E p \in Prompts : ChildExit(p)
  \/ \E p \in Prompts : TailRead(p)
  \/ \E p \in Prompts : TailGiveUp(p)
  \/ \E p \in Prompts : TailStop(p)
  \/ Deliver
  \/ \E c \in Cancels : Cancel(c)
  \/ \E c \in Cancels : CancelServerStopped(c)
  \/ \E c \in Cancels : TimerFire(c)

Spec == Init /\ [][Next]_vars

\* The event loop runs every callback that is ready, the client answers every
\* request and every child exits: no step of Next stays possible forever
\* without one being taken.
FairSpec == Spec /\ WF_vars(Next)

\* ---- the update relay in detail: session.updateQueue as a promise chain ----

\* Who calls queueSessionUpdate / queueTextUpdate while a prompt runs: the
\* stdout handler (void, never awaits) and the log tailer (awaits each one).
Producers == {"stdout", "tail"}
Links == 1..MaxUpdates

\* A chain without the .catch: a rejected link is passed on as a rejection
\* and the callbacks behind it never run.
SettledFulfilled(link) == link.st = "fulfilled"

\* The promise of a link has settled; .catch(() => undefined) turns its
\* rejection into a fulfilment for the link behind it.
Settled(link) == link.st \in {"fulfilled", "rejected"}

\* A chain whose links do not wait for the link before them.
LinkReadyUnchained(i) == TRUE

\* session.updateQueue.catch(() => undefined).then(send): the callback of link
\* i runs once the promise of link i - 1 has settled, either way.
LinkReady(i) == IF i = 1 THEN TRUE ELSE Settled(updateChain[i - 1])

\* queueSessionUpdate(session, update): a link is appended to the chain.
QueueUpdate(by) ==
  /\ Len(updateChain) < MaxUpdates
  /\ by = "tail" =>
       \A i \in DOMAIN updateChain :
         updateChain[i].by = "tail" => Settled(updateChain[i])
  /\ updateChain' = Append(updateChain, [by |-> by, st |-> "waiting"])
  /\ UNCHANGED <<received, flowVars, toolVars, forkVars, logVars, queueVars, manageVars, permVars, slashVars, loadVars>>

\* The .then callback of link i runs: client.sessionUpdate(notification).
SendUpdate(i) ==
  /\ i \in DOMAIN updateChain
  /\ updateChain[i].st = "waiting"
  /\ LinkReady(i)
  /\ updateChain' = [updateChain EXCEPT ![i].st = "sending"]
  /\ received' = Append(received, i)
  /\ UNCHANGED <<flowVars, toolVars, forkVars, logVars, queueVars, manageVars, permVars, slashVars, loadVars>>

\* client.sessionUpdate settles, and with it the promise of link i.
UpdateSettled(i) ==
  /\ i \in DOMAIN updateChain
  /\ updateChain[i].st = "sending"
  /\ \E ok \in BOOLEAN :
       updateChain' = [updateChain EXCEPT
                         ![i].st = IF ok THEN "fulfilled" ELSE "rejected"]
  /\ UNCHANGED <<received, flowVars, toolVars, forkVars, logVars, queueVars, manageVars, permVars, slashVars, loadVars>>

RelayNext ==
  \/ \E by \in Producers : QueueUpdate(by)
  \/ \E i \in Links : SendUpdate(i)
  \/ \E i \in Links : UpdateSettled(i)

RelaySpec == Init /\ [][RelayNext]_vars

\* ---- tool calls in detail: the handlers of handleSessionMessage ----

\* tool_call_id values the events of a log carry.
ToolIds == {"call_1", "call_2"}

\* Texts are sequences of characters. The pieces result texts are made of:
Fragments == { <<"E", "r", "r">>, <<"o", "r">>,
               <<"f", "a", "i", "l", "e", "d">>,
               <<"E", "X", "C", "E", "P", "T", "I", "O", "N">>,
               <<"o", "k">> }

\* message.content ?? "" of a result event: empty, one piece or two.
Texts == {<<>>} \cup Fragments \cup {f \o g : f \in Fragments, g \in Fragments}

\* Case folding of the i flag, for the letters the texts use.
ToLowerCase(c) ==
  CASE c = "E" -> "e" [] c = "R" -> "r" [] c = "O" -> "o" [] c = "X" -> "x"
    [] c = "C" -> "c" [] c = "P" -> "p" [] c = "T" -> "t" [] c = "I" -> "i"
    [] c = "N" -> "n" [] OTHER -> c

\* The alternatives of /error|failed|exception/i.
Patterns == { <<"e", "r", "r", "o", "r">>,
              <<"f", "a", "i", "l", "e", "d">>,
              <<"e", "x", "c", "e", "p", "t", "i", "o", "n">> }

\* /error|failed|exception/i.test(text): an alternative occurs at some
\* position of the text, letter case ignored.
RegexTest(text) ==
  \E w \in Patterns :
    \E i \in 1..Len(text) :
      /\ i + Len(w) - 1 <= Len(text)
      /\ \A k \in 1..Len(w) : ToLowerCase(text[i + k - 1]) = w[k]

\* A result that reports the status of the fallback record.
ResultStatusOfFallback(text) == "completed"

\* status of the tool_call_update of a result: failed ? "failed" : "completed".
ResultStatus(text) == IF RegexTest(text) THEN "failed" ELSE "completed"

\* A notification about tool call id queued with queueSessionUpdate.
ToolUpdate(id, update, status) == [id |-> id, update |-> update, status |-> status]

\* handleToolCallStart: the record is stored and announced; run_command
\* starts in_progress, every other tool pending. (The plan notification of
\* todo_write / plan carries no tool-call status and is left out.)
ToolCallStart(id) ==
  /\ Len(toolUpdates) < MaxToolUpdates
  /\ \E isCommand \in BOOLEAN, supportsTerminalOutput \in BOOLEAN :
       /\ toolCalls' = toolCalls \cup {id}
       /\ terminalToolCalls' =
            IF isCommand /\ supportsTerminalOutput
            THEN terminalToolCalls \cup {id} ELSE terminalToolCalls
       /\ toolUpdates' =
            Append(toolUpdates,
                   ToolUpdate(id, "tool_call",
                              IF isCommand THEN "in_progress" ELSE "pending"))
  /\ UNCHANGED <<toolCallOutputs, streamingToolCalls, rawOutput, flowVars,
                 relayVars, forkVars, logVars, queueVars, manageVars, permVars, slashVars, loadVars>>

\* handleToolCallOutputDelta: an empty chunk is ignored; a fallback record is
\* created when the id is unknown and the message has a name; then the
\* output is sent as in_progress (terminal output, or the buffered text).
ToolCallOutputDelta(id) ==
  /\ Len(toolUpdates) < MaxToolUpdates
  /\ \E hasChunk \in BOOLEAN, hasName \in BOOLEAN :
       IF ~hasChunk
       THEN UNCHANGED <<toolCalls, toolCallOutputs, streamingToolCalls,
                        toolUpdates>>
       ELSE LET fallback == id \notin toolCalls /\ hasName
                announced == IF fallback
                             THEN Append(toolUpdates,
                                         ToolUpdate(id, "tool_call", "in_progress"))
                             ELSE toolUpdates
            IN /\ streamingToolCalls' = streamingToolCalls \cup {id}
               /\ toolCalls' = IF fallback THEN toolCalls \cup {id} ELSE toolCalls
               /\ toolCallOutputs' =
                    IF id \in terminalToolCalls THEN toolCallOutputs
                    ELSE toolCallOutputs \cup {id}
               /\ toolUpdates' =
                    Append(announced,
                           ToolUpdate(id, "tool_call_update", "in_progress"))
  /\ UNCHANGED <<terminalToolCalls, rawOutput, flowVars, relayVars, forkVars, logVars, queueVars, manageVars, permVars, slashVars, loadVars>>

\* handleToolCallResult: a fallback record (status completed) is created
\* when the id is unknown and the message has a name; the update carries the
\* status the output text decides; the buffers of the id are dropped.
ToolCallResult(id) ==
  /\ Len(toolUpdates) < MaxToolUpdates
  /\ \E outputText \in Texts, hasName \in BOOLEAN :
       LET fallback == id \notin toolCalls /\ hasName
           announced == IF fallback
                        THEN Append(toolUpdates,
                                    ToolUpdate(id, "tool_call", "completed"))
                        ELSE toolUpdates
       IN /\ toolCalls' = IF fallback THEN toolCalls \cup {id} ELSE toolCalls
          /\ toolUpdates' =
               Append(announced,
                      ToolUpdate(id, "tool_call_update", ResultStatus(outputText)))
          /\ rawOutput' = outputText
  /\ toolCallOutputs' = toolCallOutputs \ {id}
  /\ streamingToolCalls' = streamingToolCalls \ {id}
  /\ terminalToolCalls' = terminalToolCalls \ {id}
  /\ UNCHANGED <<flowVars, relayVars, forkVars, logVars, queueVars, manageVars, permVars, slashVars, loadVars>>

ToolNext ==
  \/ \E id \in ToolIds : ToolCallStart(id)
  \/ \E id \in ToolIds : ToolCallOutputDelta(id)
  \/ \E id \in ToolIds : ToolCallResult(id)

ToolSpec == Init /\ [][ToolNext]_vars

\* ---- a session and its fork: history, mode and model ----

\* The session unstable_forkSession is called on, and the session it makes.
Sessions == {"parent", "fork"}
Modes == {"default", "plan"}
Models == {"none", "model_a"}
Roles == {"user", "assistant"}

\* The session is in this.sessions.
Exists(s) == s = "parent" \/ forked

\* A fork whose history field refers to the parent's array.
HistoryOfForkShared(parentHistory, fresh) == parentHistory

\* history: [...parentSession.history]: the field of the fork refers to a new
\* array (which gets the parent's elements).
HistoryOfFork(parentHistory, fresh) == fresh

\* unstable_forkSession: history is copied into a new array, modeId and
\* modelId are copied.
ForkSession ==
  /\ ~forked
  /\ allocated < MaxArrays
  /\ forked' = TRUE
  /\ allocated' = allocated + 1
  /\ arrays' = [arrays EXCEPT ![allocated + 1] = arrays[history["parent"]]]
  /\ history' = [history EXCEPT
                   !["fork"] = HistoryOfFork(history["parent"], allocated + 1)]
  /\ modeId' = [modeId EXCEPT !["fork"] = modeId["parent"]]
  /\ modelId' = [modelId EXCEPT !["fork"] = modelId["parent"]]
  /\ UNCHANGED <<flowVars, relayVars, toolVars, logVars, queueVars, manageVars, permVars, slashVars, loadVars>>

\* setSessionMode, and /mode with a valid mode: session.modeId = modeId.
SetSessionMode(s) ==
  /\ Exists(s)
  /\ \E m \in Modes : modeId' = [modeId EXCEPT ![s] = m]
  /\ UNCHANGED <<forked, arrays, allocated, history, modelId, flowVars,
                 relayVars, toolVars, logVars, queueVars, manageVars, permVars, slashVars, loadVars>>

\* unstable_setSessionModel, and /model with a valid model:
\* session.modelId = modelId.
SetSessionModel(s) ==
  /\ Exists(s)
  /\ \E m \in Models : modelId' = [modelId EXCEPT ![s] = m]
  /\ UNCHANGED <<forked, arrays, allocated, history, modeId, flowVars,
                 relayVars, toolVars, logVars, queueVars, manageVars, permVars, slashVars, loadVars>>

\* session.history.push(message): executePrompt (the user's text) and
\* runAutohandResume (the assistant's output).
HistoryPush(s) ==
  /\ Exists(s)
  /\ Len(arrays[history[s]]) < MaxHistory
  /\ \E role \in Roles :
       arrays' = [arrays EXCEPT ![history[s]] = Append(@, role)]
  /\ UNCHANGED <<forked, allocated, history, modeId, modelId, flowVars,
                 relayVars, toolVars, logVars, queueVars, manageVars, permVars, slashVars, loadVars>>

\* /new: session.history = [].
SlashNew(s) ==
  /\ Exists(s)
  /\ allocated < MaxArrays
  /\ allocated' = allocated + 1
  /\ arrays' = [arrays EXCEPT ![allocated + 1] = <<>>]
  /\ history' = [history EXCEPT ![s] = allocated + 1]
  /\ UNCHANGED <<forked, modeId, modelId, flowVars, relayVars, toolVars, logVars, queueVars, manageVars, permVars, slashVars, loadVars>>

\* An operation on session s.
SessionStep(s) ==
  SetSessionMode(s) \/ SetSessionModel(s) \/ HistoryPush(s) \/ SlashNew(s)

ForkNext ==
  \/ ForkSession
  \/ \E s \in Sessions : SetSessionMode(s)
  \/ \E s \in Sessions : SetSessionModel(s)
  \/ \E s \in Sessions : HistoryPush(s)
  \/ \E s \in Sessions : SlashNew(s)

ForkSpec == Init /\ [][ForkNext]_vars

\* ---- the conversation log: appends, trackConversation, readConversation ----

\* Two executePrompt calls of one session, one after the other. Run t spawns
\* child t, which makes session directory t, and starts tailer t.
Runs == {1, 2}

\* The children that get as far as making a session directory.
LogWriters == {1, 2}

\* The bytes a log ends up holding. "a" is a one-line JSON message, "sp" a
\* space, "nl" a newline, "c1" "c2" the two bytes of one non-ASCII character
\* in the string of a JSON message, "x" a line that is not JSON.
Contents ==
  << <<"a", "nl", "sp", "a", "nl">>,
     <<"c1", "c2", "nl">>,
     <<"x", "nl", "a", "nl">> >>

\* What conversation.jsonl of directory d holds now.
Bytes(d) ==
  IF logFile[d] = 0 THEN <<>> ELSE SubSeq(Contents[logFile[d]], 1, written[d])

\* buffer.toString("utf8"): a lead byte with its continuation byte is one
\* character; a lead byte without it, and a continuation byte alone, each
\* become U+FFFD.
RECURSIVE Utf8Decode(_)
Utf8Decode(b) ==
  IF b = <<>> THEN <<>>
  ELSE IF b[1] = "c1"
    THEN IF Len(b) >= 2 /\ b[2] = "c2"
           THEN <<"e_acute">> \o Utf8Decode(SubSeq(b, 3, Len(b)))
           ELSE <<"U+FFFD">> \o Utf8Decode(Tail(b))
  ELSE IF b[1] = "c2" THEN <<"U+FFFD">> \o Utf8Decode(Tail(b))
  ELSE <<b[1]>> \o Utf8Decode(Tail(b))

\* combined.split("\n"): the pieces between newlines; the last piece is what
\* follows the last newline.
RECURSIVE Split(_)
Split(chars) ==
  IF \A i \in DOMAIN chars : chars[i] # "nl" THEN <<chars>>
  ELSE LET i == CHOOSE i \in DOMAIN chars :
                  chars[i] = "nl" /\ \A j \in 1..(i - 1) : chars[j] # "nl"
       IN <<SubSeq(chars, 1, i - 1)>> \o Split(SubSeq(chars, i + 1, Len(chars)))

\* line.trim()
RECURSIVE Trim(_)
Trim(line) ==
  IF line # <<>> /\ line[1] = "sp" THEN Trim(Tail(line))
  ELSE IF line # <<>> /\ line[Len(line)] = "sp"
    THEN Trim(SubSeq(line, 1, Len(line) - 1))
  ELSE line

\* JSON.parse(trimmed) does not throw: the text is one message, "a" or a
\* message whose string is made of non-ASCII characters.
JsonParses(text) ==
  \/ text = <<"a">>
  \/ text # <<>> /\ \A i \in DOMAIN text : text[i] \in {"e_acute", "U+FFFD"}

\* The lines of chars that reach handleSessionMessage: split, drop what
\* follows the last newline, trim, skip the empty and the unparsable.
ParseLines(chars) ==
  LET pieces == Split(chars)
      lines == SubSeq(pieces, 1, Len(pieces) - 1)
      trimmed == [k \in DOMAIN lines |-> Trim(lines[k])]
  IN SelectSeq(trimmed, LAMBDA text : text # <<>> /\ JsonParses(text))

\* A JSON.parse error that ends the loop over the lines of the read.
SkipLineFatal(rest) == <<>>

\* catch { continue; } around JSON.parse: the loop goes on with the lines
\* after the one that did not parse.
SkipLine(rest) == rest

\* The loop over the lines of one read: the lines handed to
\* handleSessionMessage, in order. Empty lines and lines that do not parse
\* are skipped.
RECURSIVE HandleLines(_)
HandleLines(lines) ==
  IF lines = <<>> THEN <<>>
  ELSE IF Head(lines).text = <<>> THEN HandleLines(Tail(lines))
  ELSE IF ~JsonParses(Head(lines).text) THEN HandleLines(SkipLine(Tail(lines)))
  ELSE <<Head(lines)>> \o HandleLines(Tail(lines))

\* signal.aborted of run t: tailAbort.abort() was called.
SignalAborted(t) == run[t] \in {"aborted", "returned"}

\* executePrompt up to the spawn: the prompt queue starts it when the earlier
\* prompt has returned; it takes the snapshot of index.json, starts
\* trackConversation, which runs up to the first await of
\* waitForConversationPath (the signal is not aborted yet), and spawns the
\* child.
ExecutePrompt(t) ==
  /\ run[t] = "idle"
  /\ t = 1 \/ run[1] = "returned"
  /\ run' = [run EXCEPT ![t] = "running"]
  /\ snapshot' = [snapshot EXCEPT ![t] = indexed]
  /\ tpc' = [tpc EXCEPT ![t] = "lookup"]
  /\ UNCHANGED <<logFile, written, indexed, sizeAtExit, handle, position,
                 bytesToRead, conversationPath, conversationOffset,
                 conversationRemainder, events, newUsed, flowVars, relayVars,
                 toolVars, forkVars, queueVars, manageVars, permVars, slashVars, loadVars>>

\* The logs child t may write: any for the first child, the first for the
\* second.
ContentsOf(t) == IF t = 1 THEN DOMAIN Contents ELSE {1}

\* A child of LogWriters makes its session directory, listed in index.json
\* or not yet. The second child is followed that far only in the runs where
\* the tailer of the first prompt has returned.
ChildCreatesLog(t) ==
  /\ run[t] = "running"
  /\ t \in LogWriters
  /\ t = 2 => tpc[1] \in {"done", "gaveUp"}
  /\ logFile[t] = 0
  /\ \E c \in ContentsOf(t) : logFile' = [logFile EXCEPT ![t] = c]
  /\ \E listed \in BOOLEAN :
       indexed' = IF listed THEN indexed \cup {t} ELSE indexed
  /\ UNCHANGED <<run, snapshot, written, sizeAtExit, tpc, handle, position,
                 bytesToRead, conversationPath, conversationOffset,
                 conversationRemainder, events, newUsed, flowVars, relayVars,
                 toolVars, forkVars, queueVars, manageVars, permVars, slashVars, loadVars>>

\* The child appends the next byte to its log.
ChildAppends(t) ==
  /\ run[t] = "running"
  /\ logFile[t] # 0
  /\ written[t] < Len(Contents[logFile[t]])
  /\ written' = [written EXCEPT ![t] = @ + 1]
  /\ UNCHANGED <<run, snapshot, logFile, indexed, sizeAtExit, tpc, handle,
                 position, bytesToRead, conversationPath, conversationOffset,
                 conversationRemainder, events, newUsed, flowVars, relayVars,
                 toolVars, forkVars, queueVars, manageVars, permVars, slashVars, loadVars>>

\* The child exits.
ChildExits(t) ==
  /\ run[t] = "running"
  /\ run' = [run EXCEPT ![t] = "exited"]
  /\ sizeAtExit' = [sizeAtExit EXCEPT ![t] = written[t]]
  /\ UNCHANGED <<snapshot, logFile, written, indexed, tpc, handle, position,
                 bytesToRead, conversationPath, conversationOffset,
                 conversationRemainder, events, newUsed, flowVars, relayVars,
                 toolVars, forkVars, queueVars, manageVars, permVars, slashVars, loadVars>>

\* executePrompt after the exit: tailAbort.abort().
TailAbort(t) ==
  /\ run[t] = "exited"
  /\ run' = [run EXCEPT ![t] = "aborted"]
  /\ UNCHANGED <<snapshot, logFile, written, indexed, sizeAtExit, tpc, handle,
                 position, bytesToRead, conversationPath, conversationOffset,
                 conversationRemainder, events, newUsed, flowVars, relayVars,
                 toolVars, forkVars, queueVars, manageVars, permVars, slashVars, loadVars>>

\* Promise.race([tailPromise, sleep(2000)]) is over, by the tailer's end or by
\* the timer, and executePrompt returns.
TailRaceOver(t) ==
  /\ run[t] = "aborted"
  /\ run' = [run EXCEPT ![t] = "returned"]
  /\ UNCHANGED <<snapshot, logFile, written, indexed, sizeAtExit, tpc, handle,
                 position, bytesToRead, conversationPath, conversationOffset,
                 conversationRemainder, events, newUsed, flowVars, relayVars,
                 toolVars, forkVars, queueVars, manageVars, permVars, slashVars, loadVars>>

\* /new between the two prompts: conversationPath = undefined,
\* conversationOffset = 0, conversationRemainder = "".
NewConversation ==
  /\ ~newUsed
  /\ run[1] = "returned"
  /\ run[2] = "idle"
  /\ newUsed' = TRUE
  /\ conversationPath' = 0
  /\ conversationOffset' = 0
  /\ conversationRemainder' = <<>>
  /\ UNCHANGED <<run, snapshot, logFile, written, indexed, sizeAtExit, tpc,
                 handle, position, bytesToRead, events, flowVars, relayVars,
                 toolVars, forkVars, queueVars, manageVars, permVars, slashVars, loadVars>>

\* waitForConversationPath after sleep(200): null when that was the last of
\* the 40 attempts, or when the signal is aborted at the top of the next one,
\* and trackConversation returns.
WaitAttempt(t) ==
  /\ tpc[t] = "attempt"
  /\ \E next \in IF SignalAborted(t) THEN {"done"} ELSE {"lookup", "gaveUp"} :
       tpc' = [tpc EXCEPT ![t] = next]
  /\ UNCHANGED <<run, snapshot, logFile, written, indexed, sizeAtExit, handle,
                 position, bytesToRead, conversationPath, conversationOffset,
                 conversationRemainder, events, newUsed, flowVars, relayVars,
                 toolVars, forkVars, queueVars, manageVars, permVars, slashVars, loadVars>>

\* waitForConversationPath, rest of an attempt: the latest session of
\* index.json that is not in the snapshot; else a directory that is not in
\* the snapshot (the first one readdir lists); else sleep(200). With a path,
\* session.conversationPath is set.
WaitLookup(t) ==
  /\ tpc[t] = "lookup"
  /\ LET candidates == indexed \ snapshot[t]
         dirs == {d \in Runs : logFile[d] # 0} \ snapshot[t]
     IN IF candidates # {}
          THEN /\ conversationPath' =
                    CHOOSE d \in candidates : \A e \in candidates : e <= d
               /\ tpc' = [tpc EXCEPT ![t] = "loop"]
        ELSE IF dirs # {}
          THEN /\ \E d \in dirs : conversationPath' = d
               /\ tpc' = [tpc EXCEPT ![t] = "loop"]
        ELSE /\ tpc' = [tpc EXCEPT ![t] = "attempt"]
             /\ UNCHANGED conversationPath
  /\ UNCHANGED <<run, snapshot, logFile, written, indexed, sizeAtExit, handle,
                 position, bytesToRead, conversationOffset,
                 conversationRemainder, events, newUsed, flowVars, relayVars,
                 toolVars, forkVars, queueVars, manageVars, permVars, slashVars, loadVars>>

\* The loop test of trackConversation and readConversation up to
\* fileHandle.read: without a path, or with nothing beyond the offset, the
\* read returns; else at most CHUNK_SIZE bytes are asked for at the offset.
\* When the signal is aborted this is the read after the loop.
ReadBegin(t) ==
  /\ tpc[t] = "loop"
  /\ IF conversationPath = 0 \/ written[conversationPath] <= conversationOffset
       THEN /\ tpc' = [tpc EXCEPT ![t] = IF SignalAborted(t) THEN "done" ELSE "loop"]
            /\ UNCHANGED <<handle, position, bytesToRead>>
       ELSE /\ tpc' = [tpc EXCEPT ![t] =
                         IF SignalAborted(t) THEN "draining" ELSE "reading"]
            /\ handle' = [handle EXCEPT ![t] = conversationPath]
            /\ position' = [position EXCEPT ![t] = conversationOffset]
            /\ bytesToRead' = [bytesToRead EXCEPT ![t] =
                 IF written[conversationPath] - conversationOffset < ChunkBytes
                   THEN written[conversationPath] - conversationOffset
                   ELSE ChunkBytes]
  /\ UNCHANGED <<run, snapshot, logFile, written, indexed, sizeAtExit,
                 conversationPath, conversationOffset, conversationRemainder,
                 events, newUsed, flowVars, relayVars, toolVars, forkVars, queueVars, manageVars, permVars, slashVars, loadVars>>

\* readConversation after fileHandle.read: the offset grows by bytesRead, the
\* slice is decoded and put after the remainder, what follows the last newline
\* is the new remainder, and the lines are handled (HandleLines).
ReadDone(t) ==
  /\ tpc[t] \in {"reading", "draining"}
  /\ LET slice == SubSeq(Bytes(handle[t]), position[t] + 1,
                         position[t] + bytesToRead[t])
         combined == conversationRemainder \o Utf8Decode(slice)
         pieces == Split(combined)
         lines == SubSeq(pieces, 1, Len(pieces) - 1)
         ends == SelectSeq([i \in 1..Len(slice) |-> i],
                           LAMBDA i : slice[i] = "nl")
         all == [k \in DOMAIN lines |->
                   [log |-> handle[t],
                    end |-> IF k <= Len(ends) THEN position[t] + ends[k] ELSE 0,
                    text |-> Trim(lines[k])]]
         handled == HandleLines(all)
     IN /\ Len(events) + Len(handled) <= MaxEvents
        /\ conversationOffset' = conversationOffset + Len(slice)
        /\ conversationRemainder' = pieces[Len(pieces)]
        /\ events' = events \o handled
  /\ tpc' = [tpc EXCEPT ![t] = IF tpc[t] = "draining" THEN "done" ELSE "loop"]
  /\ handle' = [handle EXCEPT ![t] = 0]
  /\ position' = [position EXCEPT ![t] = 0]
  /\ bytesToRead' = [bytesToRead EXCEPT ![t] = 0]
  /\ UNCHANGED <<run, snapshot, logFile, written, indexed, sizeAtExit,
                 conversationPath, newUsed, flowVars, relayVars, toolVars,
                 forkVars, queueVars, manageVars, permVars, slashVars, loadVars>>

LogNext ==
  \/ \E t \in Runs : ExecutePrompt(t)
  \/ \E t \in Runs : ChildCreatesLog(t)
  \/ \E t \in Runs : ChildAppends(t)
  \/ \E t \in Runs : ChildExits(t)
  \/ \E t \in Runs : TailAbort(t)
  \/ \E t \in Runs : TailRaceOver(t)
  \/ NewConversation
  \/ \E t \in Runs : WaitAttempt(t)
  \/ \E t \in Runs : WaitLookup(t)
  \/ \E t \in Runs : ReadBegin(t)
  \/ \E t \in Runs : ReadDone(t)

LogSpec == Init /\ [][LogNext]_vars

\* ---- the prompt queues of two sessions ----

\* Two sessions made by newSession, each with its own promptQueue.
SessionIds == {"s1", "s2"}
Calls == 1..MaxCalls

\* thisPrompt of a call has settled.
CallSettled(st) == st \in {"end_turn", "cancelled", "rejected"}

\* One promptQueue for the whole agent: a call also waits while a call of
\* another session executes.
QueueReadyShared(s, k) ==
  /\ IF k = 1 THEN TRUE ELSE CallSettled(calls[s][k - 1])
  /\ \A t \in SessionIds : \A j \in DOMAIN calls[t] : calls[t][j] # "executing"

\* previousPrompt = session.promptQueue has settled: the queue of the call's
\* own session, which starts resolved and then is the caught thisPrompt of
\* the session's previous call.
QueueReady(s, k) ==
  IF k = 1 THEN TRUE ELSE CallSettled(calls[s][k - 1])

\* prompt() with the id of a session: the call is chained on the session's
\* promptQueue.
PromptCall(s) ==
  /\ Len(calls[s]) < MaxCalls
  /\ calls' = [calls EXCEPT ![s] = Append(@, "queued")]
  /\ UNCHANGED <<flowVars, relayVars, toolVars, forkVars, logVars, manageVars, permVars, slashVars, loadVars>>

\* previousPrompt.then(() => this.executePrompt(session, params)) fires.
ExecuteCall(s, k) ==
  /\ k \in DOMAIN calls[s]
  /\ calls[s][k] = "queued"
  /\ QueueReady(s, k)
  /\ calls' = [calls EXCEPT ![s][k] = "executing"]
  /\ UNCHANGED <<flowVars, relayVars, toolVars, forkVars, logVars, manageVars, permVars, slashVars, loadVars>>

\* executePrompt returns a stop reason or throws.
SettleCall(s, k) ==
  /\ k \in DOMAIN calls[s]
  /\ calls[s][k] = "executing"
  /\ \E r \in {"end_turn", "cancelled", "rejected"} :
       calls' = [calls EXCEPT ![s][k] = r]
  /\ UNCHANGED <<flowVars, relayVars, toolVars, forkVars, logVars, manageVars, permVars, slashVars, loadVars>>

QueueNext ==
  \/ \E s \in SessionIds : PromptCall(s)
  \/ \E s \in SessionIds, k \in Calls : ExecuteCall(s, k)
  \/ \E s \in SessionIds, k \in Calls : SettleCall(s, k)

QueueSpec == Init /\ [][QueueNext]_vars

\* ---- the session registry: newSession, setSessionMode, ... ----

\* Ids randomUUID can give to a session, and the ids a request can carry:
\* "k0" is never given to a session.
NewIds == {"k1", "k2"}
RequestIds == {"k0"} \cup NewIds

\* Two of the options of buildConfigOptions, and values a request can carry.
ConfigIds == {"permission_mode", "dry_run"}
ConfigValues == {"external", "enabled", "disabled"}

\* A lookup that finds a session for every id.
KnownAlways(id) == TRUE

\* this.sessions.get(id) is defined.
Known(id) == id \in sessions

\* buildConfigOptions: the current values come from process.env.
BuildConfigOptions ==
  [c \in ConfigIds |->
     IF c = "permission_mode"
       THEN IF env["AUTOHAND_PERMISSION_MODE"] = "unset" THEN "auto"
            ELSE env["AUTOHAND_PERMISSION_MODE"]
     ELSE IF env["AUTOHAND_DRY_RUN"] = "1" THEN "enabled" ELSE "disabled"]

\* applyConfigOption
ApplyConfigOption(configId, value) ==
  IF configId = "permission_mode"
    THEN [env EXCEPT !["AUTOHAND_PERMISSION_MODE"] = value]
  ELSE IF configId = "dry_run"
    THEN [env EXCEPT !["AUTOHAND_DRY_RUN"] = IF value = "enabled" THEN "1" ELSE "unset"]
  ELSE env

\* What a prompt launched now uses, whatever its session: executePrompt and
\* buildAutohandCommand read the permission mode (default "auto") and the
\* dry-run switch from process.env.
LaunchSettings ==
  [c \in ConfigIds |->
     IF c = "permission_mode"
       THEN IF env["AUTOHAND_PERMISSION_MODE"] = "unset" THEN "auto"
            ELSE env["AUTOHAND_PERMISSION_MODE"]
     ELSE IF env["AUTOHAND_DRY_RUN"] = "1" THEN "enabled" ELSE "disabled"]

\* A request is handled: it is counted and remembered with its outcome.
Handled(request, reply) ==
  /\ requests < MaxRequests
  /\ UNCHANGED <<flowVars, relayVars, toolVars, forkVars, logVars, queueVars, permVars, slashVars, loadVars>>
  /\ requests' = requests + 1
  /\ lastRequest' = request
  /\ lastReply' = reply

\* throw RequestError.invalidParams(...) before anything else.
InvalidParams(request) ==
  /\ Handled(request, "invalid_params")
  /\ UNCHANGED <<sessions, modeOf, modelOf, configOf, chained, env,
                 notifications>>

\* The outcome of a handler that awaits the update it queued.
AwaitedReplies == {"ok", "update_failed"}

\* newSession: the cwd must be absolute; the session is registered under a
\* new id and available_commands_update is queued (by setImmediate).
NewSession(absolute) ==
  LET request == [op |-> "newSession", absolute |-> absolute]
  IN IF ~absolute THEN InvalidParams(request)
     ELSE /\ sessions # NewIds
          /\ LET id == CHOOSE k \in NewIds \ sessions : TRUE
             IN /\ sessions' = sessions \cup {id}
                /\ modeOf' = [modeOf EXCEPT ![id] = "default"]
                /\ modelOf' = [modelOf EXCEPT ![id] = "model_a"]
                /\ configOf' = [configOf EXCEPT ![id] = BuildConfigOptions]
                /\ notifications' = Append(notifications,
                     [session |-> id, update |-> "available_commands_update"])
          /\ Handled(request, "ok")
          /\ UNCHANGED <<chained, env>>

\* setSessionMode
SetMode(id, mode) ==
  LET request == [op |-> "setSessionMode", id |-> id, value |-> mode]
  IN IF ~Known(id) THEN InvalidParams(request)
     ELSE /\ modeOf' = [modeOf EXCEPT ![id] = mode]
          /\ notifications' = Append(notifications,
               [session |-> id, update |-> "current_mode_update"])
          /\ \E reply \in AwaitedReplies : Handled(request, reply)
          /\ UNCHANGED <<sessions, modelOf, configOf, chained, env>>

\* unstable_setSessionModel
SetModel(id, model) ==
  LET request == [op |-> "setSessionModel", id |-> id, value |-> model]
  IN IF ~Known(id) THEN InvalidParams(request)
     ELSE /\ modelOf' = [modelOf EXCEPT ![id] = model]
          /\ Handled(request, "ok")
          /\ UNCHANGED <<sessions, modeOf, configOf, chained, env,
                         notifications>>

\* unstable_setSessionConfigOption
SetConfigOption(id, configId, value) ==
  LET request == [op |-> "setSessionConfigOption", id |-> id,
                  configId |-> configId, value |-> value]
  IN IF ~Known(id) THEN InvalidParams(request)
     ELSE IF configId \notin DOMAIN configOf[id] THEN InvalidParams(request)
     ELSE /\ configOf' = [configOf EXCEPT ![id][configId] = value]
          /\ env' = ApplyConfigOption(configId, value)
          /\ notifications' = Append(notifications,
               [session |-> id, update |-> "config_option_update"])
          /\ \E reply \in AwaitedReplies : Handled(request, reply)
          /\ UNCHANGED <<sessions, modeOf, modelOf, chained>>

\* unstable_forkSession: the fork is registered under a new id with the
\* parent's mode, model and a copy of its config options, and the text
\* "Forked from session ..." is queued.
Fork(id) ==
  LET request == [op |-> "forkSession", id |-> id]
  IN IF ~Known(id) THEN InvalidParams(request)
     ELSE /\ sessions # NewIds
          /\ LET new == CHOOSE k \in NewIds \ sessions : TRUE
             IN /\ sessions' = sessions \cup {new}
                /\ modeOf' = [modeOf EXCEPT ![new] = modeOf[id]]
                /\ modelOf' = [modelOf EXCEPT ![new] = modelOf[id]]
                /\ configOf' = [configOf EXCEPT ![new] = configOf[id]]
                /\ notifications' = Append(notifications,
                     [session |-> new, update |-> "agent_message_chunk"])
          /\ \E reply \in AwaitedReplies : Handled(request, reply)
          /\ UNCHANGED <<chained, env>>

\* prompt(): chained on the promptQueue of the session.
PromptRequest(id) ==
  LET request == [op |-> "prompt", id |-> id]
  IN IF ~Known(id) THEN InvalidParams(request)
     ELSE /\ chained' = [chained EXCEPT ![id] = @ + 1]
          /\ Handled(request, "ok")
          /\ UNCHANGED <<sessions, modeOf, modelOf, configOf, env,
                         notifications>>

ManageNext ==
  \/ \E absolute \in BOOLEAN : NewSession(absolute)
  \/ \E id \in RequestIds, mode \in Modes : SetMode(id, mode)
  \/ \E id \in RequestIds, model \in Models : SetModel(id, model)
  \/ \E id \in RequestIds, configId \in ConfigIds \cup {"bogus"},
        value \in ConfigValues : SetConfigOption(id, configId, value)
  \/ \E id \in RequestIds : Fork(id)
  \/ \E id \in RequestIds : PromptRequest(id)

ManageSpec == Init /\ [][ManageNext]_vars

\* ---- the permission bridge: POST /permission ----

\* request.type of a body, and request.choices: absent or a list of names.
PostTypes == {"permission_request", "confirm", "select", "input", "other"}
Choices ==
  {[given |-> FALSE, names |-> <<>>]} \cup
  {[given |-> TRUE, names |-> n] : n \in {<<>>, <<"c1">>, <<"c1", "c2">>}}

\* What client.requestPermission can do: throw, or return an outcome that is
\* cancelled, selected with an option id, or something else.
Outcomes ==
  {[outcome |-> o] : o \in {"error", "cancelled", "unknown"}} \cup
  {[outcome |-> "selected", optionId |-> id] :
     id \in {"allow_once", "allow_always", "reject_once", "allow", "reject",
             "c1"}}

Denied == [allowed |-> FALSE, reason |-> "external_denied"]
Approved == [allowed |-> TRUE, reason |-> "external_approved"]

\* A catch block that lets the request through.
CaughtApproved(type) == Approved

\* catch (error) { ...; return { allowed: false, reason: "external_denied" } }
Caught(type) == Denied

\* A bridge that lets through whatever is not a rejection: anything but
\* cancelled, reject_once and a thrown error is allowed.
PermissionDecisionOpen(o) ==
  IF o.outcome \in {"error", "cancelled"} THEN Denied
  ELSE IF o.outcome = "selected" /\ o.optionId = "reject_once" THEN Denied
  ELSE Approved

\* requestPermissionFromClient after the call.
PermissionDecision(o) ==
  IF o.outcome = "error" THEN Caught("permission_request")
  ELSE IF o.outcome = "cancelled" THEN Denied
  ELSE IF o.outcome = "selected"
    THEN IF o.optionId \in {"allow_once", "allow_always"} THEN Approved
         ELSE Denied
  ELSE Denied

\* requestPromptFromClient after the call.
PromptDecision(type, o) ==
  IF o.outcome = "error" THEN Caught(type)
  ELSE IF o.outcome = "cancelled" THEN Denied
  ELSE IF o.outcome = "selected"
    THEN IF type = "confirm"
           THEN IF o.optionId = "allow" THEN Approved ELSE Denied
           ELSE [allowed |-> TRUE, choice |-> o.optionId,
                 reason |-> "external_approved"]
  ELSE Denied

\* Only a free-text prompt is answered without the client.
AnsweredLocallyInputOnly(type, choices) == type = "input"

\* requestPromptFromClient before the call: an input prompt, and a select
\* prompt without choices, are answered at once.
AnsweredLocally(type, choices) ==
  \/ type = "input"
  \/ type = "select" /\ (~choices.given \/ Len(choices.names) = 0)

\* The request handler of createPermissionServer up to the first await on
\* the client: 400 for another type, the local answer, or the call.
Post(type, choices) ==
  /\ bridge = "idle"
  /\ posts < MaxPosts
  /\ posts' = posts + 1
  /\ post' = [type |-> type, choices |-> choices]
  /\ outcome' = [outcome |-> "none"]
  /\ IF type = "other"
       THEN /\ decision' = [status |-> "Invalid request type"]
            /\ UNCHANGED <<bridge, clientCalls>>
     ELSE IF type # "permission_request" /\ AnsweredLocally(type, choices)
       THEN /\ decision' = Denied
            /\ UNCHANGED <<bridge, clientCalls>>
     ELSE /\ decision' = [status |-> "none"]
          /\ bridge' = "asked"
          /\ clientCalls' = clientCalls + 1
  /\ UNCHANGED <<flowVars, relayVars, toolVars, forkVars, logVars, queueVars,
                 manageVars, slashVars, loadVars>>

\* client.requestPermission settled: the decision is the response.
ClientAnswered(o) ==
  /\ bridge = "asked"
  /\ bridge' = "idle"
  /\ outcome' = o
  /\ decision' = IF post.type = "permission_request" THEN PermissionDecision(o)
                 ELSE PromptDecision(post.type, o)
  /\ UNCHANGED <<posts, post, clientCalls, flowVars, relayVars, toolVars,
                 forkVars, logVars, queueVars, manageVars,
                 slashVars, loadVars>>

PermNext ==
  \/ \E type \in PostTypes, choices \in Choices : Post(type, choices)
  \/ \E o \in Outcomes : ClientAnswered(o)

PermSpec == Init /\ [][PermNext]_vars

\* ---- slash commands ----

\* Prompt texts: plain text, or "/" and a word, followed by an argument or
\* not.
Words == {"help", "HELP", "?", "new", "model", "mode", "sessions", "session",
          "status", "resume", "threads", "init", "Init"}
UserTexts ==
  {[slash |-> FALSE, word |-> "hello", args |-> 0]} \cup
  {[slash |-> TRUE, word |-> w, args |-> n] : w \in Words, n \in {0, 1}}

\* parts[0].toLowerCase() of the words above.
WordToLowerCase(w) ==
  IF w = "HELP" THEN "help" ELSE IF w = "Init" THEN "init" ELSE w

\* parseSlashCommand: null unless the text starts with "/"; the command is
\* the first word in lower case.
ParseSlashCommand(text) ==
  IF ~text.slash THEN [parsed |-> FALSE, command |-> "", args |-> 0]
  ELSE [parsed |-> TRUE, command |-> WordToLowerCase(text.word),
        args |-> text.args]

\* handleSlashCommand returns handled: true for these, false for the rest.
HandledLocally(command) ==
  command \in {"help", "?", "new", "model", "mode", "resume", "threads",
               "sessions", "session", "status"}

\* executePrompt from the slash-command check to the next await: a handled
\* command queues its reply, opens a picker (/model, /mode without argument
\* when the session has models, modes) or, for /resume <id> of a known
\* session, runs `autohand resume`; everything else is launched as a prompt
\* of the agent.
ExecuteText(text) ==
  /\ slashPc \in {"idle", "done"}
  /\ userText' = text
  /\ stopReason' = "pending"
  /\ selection' = "none"
  /\ LET parsed == ParseSlashCommand(text)
     IN IF parsed.parsed /\ HandledLocally(parsed.command)
          THEN IF parsed.command \in {"resume", "threads"}
                 THEN \E found \in BOOLEAN :
                        IF parsed.args > 0 /\ found
                          THEN slashPc' = "resumeRun" /\ spawned' = "resume"
                          ELSE slashPc' = "reply" /\ spawned' = "none"
               ELSE IF parsed.command \in {"model", "mode"} /\ parsed.args = 0
                 THEN /\ \E configured \in BOOLEAN :
                           slashPc' = IF configured THEN "picker" ELSE "reply"
                      /\ spawned' = "none"
               ELSE slashPc' = "reply" /\ spawned' = "none"
        ELSE slashPc' = "agentRun" /\ spawned' = "agent"
  /\ UNCHANGED <<flowVars, relayVars, toolVars, forkVars, logVars, queueVars,
                 manageVars, permVars,
                 loadVars>>

\* showModelPicker / showModePicker returned an option, or null (cancelled,
\* or the client failed, which is caught there): the reply is queued.
PickerAnswered ==
  /\ slashPc = "picker"
  /\ slashPc' = "reply"
  /\ \E picked \in {"option", "null"} : selection' = picked
  /\ UNCHANGED <<userText, stopReason, spawned, flowVars, relayVars, toolVars,
                 forkVars, logVars, queueVars, manageVars, permVars,
                 loadVars>>

\* The awaited queueTextUpdate of the reply settled: handled, end_turn; or
\* its rejection leaves executePrompt.
ReplySettled ==
  /\ slashPc = "reply"
  /\ slashPc' = "done"
  /\ \E ok \in BOOLEAN : stopReason' = IF ok THEN "end_turn" ELSE "rejected"
  /\ UNCHANGED <<userText, spawned, selection, flowVars, relayVars, toolVars,
                 forkVars, logVars, queueVars, manageVars, permVars,
                 loadVars>>

\* The subprocess is over and the prompt returns.
SubprocessOver ==
  /\ slashPc \in {"resumeRun", "agentRun"}
  /\ slashPc' = "done"
  /\ \E r \in IF slashPc = "resumeRun" THEN {"end_turn"}
              ELSE {"end_turn", "cancelled", "rejected"} : stopReason' = r
  /\ UNCHANGED <<userText, spawned, selection, flowVars, relayVars, toolVars,
                 forkVars, logVars, queueVars, manageVars, permVars,
                 loadVars>>

SlashNext ==
  \/ \E text \in UserTexts : ExecuteText(text)
  \/ PickerAnswered
  \/ ReplySettled
  \/ SubprocessOver

SlashSpec == Init /\ [][SlashNext]_vars

\* ---- one session id, loaded again ----

\* SessionState objects are numbered in the order they are made for the id:
\* the first by newSession or loadSession, the others by later loadSession /
\* resumeSession calls.
\* this.sessions.set(id, { ..., promptQueue: Promise.resolve(...) }): the
\* registry holds a new SessionState for the id.
LoadedState(state) == state + 1

\* loadSession / unstable_resumeSession for the id, whether or not the
\* registry holds it.
LoadSession ==
  /\ registered <= MaxLoads
  /\ registered' = LoadedState(registered)
  /\ UNCHANGED <<promptQueue, loadCalls, flowVars, relayVars, toolVars,
                 forkVars, logVars, queueVars, manageVars, permVars, slashVars>>

\* prompt(): thisPrompt is chained on the promptQueue of the SessionState the
\* registry holds, which becomes thisPrompt (caught).
SubmitPrompt ==
  /\ Len(loadCalls) < MaxLoadCalls
  /\ loadCalls' = Append(loadCalls,
                         [previous |-> promptQueue[registered], st |-> "queued"])
  /\ promptQueue' = [promptQueue EXCEPT ![registered] = Len(loadCalls) + 1]
  /\ UNCHANGED <<registered, flowVars, relayVars, toolVars, forkVars, logVars,
                 queueVars, manageVars, permVars, slashVars>>

\* previousPrompt.then fires: the call it was chained on has settled (a
\* rejection is caught), and executePrompt begins.
BeginCall(k) ==
  /\ k <= Len(loadCalls)
  /\ loadCalls[k].st = "queued"
  /\ IF loadCalls[k].previous = 0 THEN TRUE
     ELSE CallSettled(loadCalls[loadCalls[k].previous].st)
  /\ loadCalls' = [loadCalls EXCEPT ![k].st = "executing"]
  /\ UNCHANGED <<registered, promptQueue, flowVars, relayVars, toolVars,
                 forkVars, logVars, queueVars, manageVars, permVars, slashVars>>

\* executePrompt returns or throws.
EndCall(k) ==
  /\ k <= Len(loadCalls)
  /\ loadCalls[k].st = "executing"
  /\ \E r \in {"end_turn", "cancelled", "rejected"} :
       loadCalls' = [loadCalls EXCEPT ![k].st = r]
  /\ UNCHANGED <<registered, promptQueue, flowVars, relayVars, toolVars,
                 forkVars, logVars, queueVars, manageVars, permVars, slashVars>>

LoadNext ==
  \/ LoadSession
  \/ SubmitPrompt
  \/ \E k \in 1..MaxLoadCalls : BeginCall(k)
  \/ \E k \in 1..MaxLoadCalls : EndCall(k)

LoadSpec == Init /\ [][LoadNext]_vars

\* ---- properties ----

\* C1: at most one executePrompt of the session is active at any time; every
\* other prompt submitted to it is waiting in the queue or has settled.
C1_AtMostOneExecuting ==
  \A p, q \in Prompts : Executing(p) /\ Executing(q) => p = q

\* One prompt runs its subprocess while a later one waits in the queue.
C1_Witness ==
  \E p, q \in Prompts : child[p] = "running" /\ pc[p] = "exitWait" /\ pc[q] = "queued"

\* C2: prompts begin executing in the order prompt() was called, and prompt
\* k+1 does not begin before the result of prompt k has settled.
C2_StartsAfterPreviousSettled ==
  \A p \in Prompts :
    p > 1 /\ pc[p] \notin {"idle", "queued"} => result[p - 1] # "pending"

\* The subprocess of a prompt has exited but its result has not settled (the
\* tail is awaited): the next prompt still waits.
C2_Witness ==
  \E p \in Prompts : p > 1 /\ pc[p] = "queued" /\ pc[p - 1] = "tailWait"

\* C3: every notification of prompt k is delivered to the client before any
\* notification of prompt k+1: while no prompt has rejected, the notification
\* delivered last is never of an earlier prompt than one delivered before it.
C3_DeliveredInPromptOrder ==
  (\A p \in Prompts : result[p] # "rejected") => lastDelivered = maxDelivered

\* C4: the promise prompt() returns is fulfilled with a stop reason, never
\* rejected.
C4_NeverRejected == \A p \in Prompts : result[p] # "rejected"

\* C5: a prompt that rejects does not poison the queue: no later prompt is
\* rejected without being executed, and the prompt queued behind a rejected
\* one is free to start.
C5_RejectionNotPassedOn ==
  \A p \in Prompts :
    /\ pc[p] # "skipped"
    /\ p > 1 /\ pc[p] = "queued" /\ result[p - 1] = "rejected"
         => PreviousPrompt(p) = "fulfilled"

\* A prompt executes after the one before it rejected.
C5_Witness ==
  \E p \in Prompts : p > 1 /\ result[p - 1] = "rejected" /\ Executing(p)

\* C6: a prompt whose subprocess was running when cancel() was called
\* settles with stop reason cancelled.
C6_CancelledWhileRunningIsCancelled ==
  [][\A p \in Prompts :
       /\ result[p] = "pending" /\ result'[p] # "pending"
       /\ cancelWhileRunning[p]
       => result'[p] = "cancelled"]_vars

C8_SigkillAfterGrace ==
  [][\A c \in Cancels :
       /\ timer[c] /\ ~timer'[c]
       /\ cTarget[c] # 0 /\ child[cTarget[c]] = "running"
       => "SIGKILL" \in signals'[cTarget[c]]]_vars

\* C9: once a prompt has resolved (end_turn or cancelled), the permission
\* server started for it no longer runs.
C9_NoServerAfterResolve ==
  \A p \in Prompts : result[p] \in {"end_turn", "cancelled"} => ~listening[p]

\* C10: a cancel() that arrives after executePrompt saw its subprocess exit
\* does not change the stop reason: the prompt settles cancelled only if
\* session.cancelled was already set at that exit.
C10_LateCancelKeepsStopReason ==
  [][\A p \in Prompts :
       /\ result[p] = "pending" /\ pc[p] = "tailWait"
       /\ child[p] \in {"code0", "code1", "signal"}
       /\ result'[p] = "cancelled"
       => cancelledAtExit[p]]_vars

\* C14: when a prompt has resolved with end_turn, no text chunk its subprocess
\* wrote to stdout is still waiting in the update queue: each has been
\* delivered to the client.
C14_StdoutDeliveredAtEndTurn ==
  \A p \in Prompts :
    result[p] = "end_turn"
      => \A i \in DOMAIN updateQueue :
           ~(updateQueue[i].p = p /\ updateQueue[i].aw = "none")

\* C19: a prompt on a session whose workspace does not exist ("Workspace not
\* found" is queued) launches no subprocess, starts no permission server and
\* no tailer, and settles only with stop reason end_turn.
C19_MissingWorkspaceEndTurn ==
  [][\A p \in Prompts :
       pc[p] = "wsAwait"
       => /\ child'[p] = "none" /\ ~listening'[p] /\ tail'[p] = "none"
          /\ result'[p] \in {"pending", "end_turn"}]_vars

\* C15: the notifications of a session reach the client in the order they
\* were queued, each once, and at most one client.sessionUpdate call is in
\* flight at a time.
C15_RelayInOrderOneInFlight ==
  /\ \A k \in DOMAIN received : received[k] = k
  /\ Cardinality({i \in DOMAIN updateChain : updateChain[i].st = "sending"}) <= 1

\* Notifications queued by the tailer and by the stdout handler have reached
\* the client while further ones, of both, wait.
C15_Witness ==
  /\ Len(received) >= 2
  /\ updateChain[received[1]].by # updateChain[received[2]].by
  /\ \E i, j \in DOMAIN updateChain :
       /\ updateChain[i].st = "waiting" /\ updateChain[j].st = "waiting"
       /\ updateChain[i].by # updateChain[j].by

\* C16: the statuses notified for one tool-call id never go back in
\* pending -> in_progress -> {completed | failed}, and no notification for
\* the id follows one with a terminal status.
C16_StatusMonotonic ==
  \A i, j \in DOMAIN toolUpdates :
    i < j /\ toolUpdates[i].id = toolUpdates[j].id
      => /\ toolUpdates[i].status \notin {"completed", "failed"}
         /\ ~(toolUpdates[i].status = "in_progress"
              /\ toolUpdates[j].status = "pending")

\* C17: every tool_call_update is preceded by a tool_call that announced a
\* record for its id.
C17_UpdateOnlyForAnnouncedId ==
  \A j \in DOMAIN toolUpdates :
    toolUpdates[j].update = "tool_call_update"
      => \E i \in 1..(j - 1) :
           /\ toolUpdates[i].update = "tool_call"
           /\ toolUpdates[i].id = toolUpdates[j].id

\* C18: the tool_call_update of a result event has status failed exactly when
\* the output text of the event matches /error|failed|exception/i, and
\* completed for every other text.
C18_FailedIffTextMatches ==
  toolUpdates # <<>> /\ toolUpdates[Len(toolUpdates)].update = "tool_call_update"
    /\ toolUpdates[Len(toolUpdates)].status \in {"completed", "failed"}
    => (toolUpdates[Len(toolUpdates)].status = "failed" <=> RegexTest(rawOutput))

\* A result whose text is "Error", in mixed case and made of two pieces, was
\* reported failed after a tool_call for its id.
C18_Witness ==
  /\ Len(toolUpdates) = 2
  /\ toolUpdates[1].update = "tool_call"
  /\ toolUpdates[2].status = "failed"
  /\ rawOutput = <<"E", "r", "r">> \o <<"o", "r">>

\* C20: the fork starts with the parent's history, mode and model, and from
\* then on no operation on one of the two sessions changes the history, mode
\* or model of the other.
C20_ForkIndependent ==
  [][/\ ForkSession
        => /\ arrays'[history'["fork"]] = arrays[history["parent"]]
           /\ modeId'["fork"] = modeId["parent"]
           /\ modelId'["fork"] = modelId["parent"]
     /\ \A s, t \in Sessions :
          forked /\ s # t /\ SessionStep(s)
            => /\ arrays'[history'[t]] = arrays[history[t]]
               /\ modeId'[t] = modeId[t]
               /\ modelId'[t] = modelId[t]]_vars

\* After the fork both sessions were changed: histories, modes and models
\* differ, and the fork had inherited a message.
C20_Witness ==
  /\ forked
  /\ arrays[history["parent"]] = <<"user", "assistant">>
  /\ arrays[history["fork"]] = <<"user", "user">>
  /\ modeId["parent"] # modeId["fork"]
  /\ modelId["parent"] # modelId["fork"]

\* C11: the lines of one log are handled in file order, none of them twice:
\* the end positions of the lines handled from a log strictly increase.
C11_FileOrderNeverTwice ==
  \A i, j \in DOMAIN events :
    i < j /\ events[i].log = events[j].log => events[i].end < events[j].end

\* C12: within the first tailer run, whenever no read is in flight, the lines
\* handled so far are those of parsing once the bytes consumed so far.
C12_SameAsParsingOnce ==
  /\ run[2] = "idle"
  /\ ~newUsed
  /\ conversationPath # 0
  /\ tpc[1] \notin {"reading", "draining"}
  => [k \in DOMAIN events |-> events[k].text]
       = ParseLines(Utf8Decode(
           SubSeq(Bytes(conversationPath), 1, conversationOffset)))

\* C13: when the tailer of the first run has finished after the signal was
\* aborted, every complete well-formed line that was in the log at the
\* child's exit has been handled.
C13_NoTrailingEventLost ==
  tpc[1] = "done"
    => \A b \in 1..sizeAtExit[1] :
         LET file == Bytes(1)
             before == SubSeq(file, 1, b - 1)
             pieces == Split(Utf8Decode(before))
             line == Trim(pieces[Len(pieces)])
         IN file[b] = "nl" /\ line # <<>> /\ JsonParses(line)
              => \E k \in DOMAIN events :
                   events[k].log = 1 /\ events[k].end = b

\* C30: once executePrompt of a run has returned, the tailer of the run has
\* stopped: trackConversation has returned.
C30_TailerStoppedAtReturn ==
  \A t \in Runs : run[t] = "returned" => tpc[t] \in {"done", "gaveUp"}

\* C26: the log a tailer is bound to belongs to a run that did not exist when
\* its prompt was launched: the tailer of the second run, which starts after
\* the first run returned, is never bound to the log of the first run.
C26_NeverBoundToEarlierRun ==
  [][tpc[2] = "lookup" /\ tpc'[2] = "loop" => conversationPath' # 1]_vars

\* C23: a launch failure is reported by one notification: after "Failed to
\* launch Autohand" no exit-code report is queued for the prompt.
C23_OneReportPerOutcome ==
  [][\A p \in Prompts : pc[p] = "errAwait" => pc'[p] # "codeAwait"]_vars

\* C28: every prompt accepted by prompt(), the second of two queued ones
\* included, eventually resolves with a stop reason.
C28_BothEventuallyResolve ==
  \A p \in Prompts :
    (pc[p] = "queued") ~> (result[p] \in {"end_turn", "cancelled"})

\* C27: a queued prompt can start as soon as the earlier prompt of its own
\* session has settled, whatever the prompts of the other session do, and a
\* prompt is only ever rejected by its own execution.
C27_SessionsIndependent ==
  /\ [](\A s \in SessionIds : \A k \in DOMAIN calls[s] :
          /\ calls[s][k] = "queued"
          /\ IF k = 1 THEN TRUE ELSE CallSettled(calls[s][k - 1])
          => ENABLED ExecuteCall(s, k))
  /\ [][\A s \in SessionIds : \A k \in DOMAIN calls[s] :
          calls[s][k] # "rejected" /\ calls'[s][k] = "rejected"
            => /\ calls[s][k] = "executing"
               /\ \A t \in SessionIds \ {s} : calls'[t] = calls[t]]_vars

\* Prompts of the two sessions execute at the same time, the second prompt
\* of s2 after the first one of s2 was rejected.
C27_Witness ==
  /\ Len(calls["s1"]) >= 1 /\ calls["s1"][1] = "executing"
  /\ Len(calls["s2"]) = 2
  /\ calls["s2"][1] = "rejected" /\ calls["s2"][2] = "executing"

\* C21: a request that is a usage error (newSession with a relative cwd, an
\* unknown session id, an unknown config option id) fails with invalid-params
\* and changes neither the registry, nor a field or the prompt queue of a
\* session, nor process.env, nor the queued notifications.
C21_UsageErrorChangesNothing ==
  [][requests' # requests =>
       LET r == lastRequest'
           usageError ==
             \/ r.op = "newSession" /\ ~r.absolute
             \/ r.op # "newSession" /\ r.id \notin sessions
             \/ r.op = "setSessionConfigOption" /\ r.configId \notin ConfigIds
       IN usageError
            => /\ lastReply' = "invalid_params"
               /\ UNCHANGED <<sessions, modeOf, modelOf, configOf, chained,
                              env, notifications>>]_vars

\* A relative cwd and then an unknown option id of an existing session were
\* refused after a session was made.
C21_Witness ==
  /\ requests = 3
  /\ sessions = {"k1"}
  /\ Len(notifications) = 1
  /\ lastRequest = [op |-> "setSessionConfigOption", id |-> "k1",
                    configId |-> "bogus", value |-> "enabled"]
  /\ lastReply = "invalid_params"

\* C22: setSessionMode, setSessionModel and setSessionConfigOption on an
\* existing session change the session and queue a notification for it.
C22_MutatesAndNotifies ==
  [][requests' # requests =>
       LET r == lastRequest'
       IN /\ r.op \in {"setSessionMode", "setSessionModel",
                       "setSessionConfigOption"}
          /\ r.id \in sessions
          /\ r.op = "setSessionConfigOption" => r.configId \in ConfigIds
          => /\ CASE r.op = "setSessionMode" -> modeOf'[r.id] = r.value
                  [] r.op = "setSessionModel" -> modelOf'[r.id] = r.value
                  [] OTHER -> configOf'[r.id][r.configId] = r.value
             /\ Len(notifications') = Len(notifications) + 1
             /\ notifications'[Len(notifications')].session = r.id]_vars

\* C24: when the client's requestPermission call was cancelled or failed, the
\* response of the bridge says allowed = false, for permission, confirm and
\* select requests.
C24_CancelledOrErrorIsDenied ==
  outcome.outcome \in {"cancelled", "error"}
    => /\ post.type \in {"permission_request", "confirm", "select"}
       /\ decision = Denied

\* The call made for a select request failed, after an earlier request.
C24_Witness ==
  /\ posts = 2
  /\ post.type = "select"
  /\ outcome.outcome = "error"
  /\ decision = Denied

\* C25: an input prompt, and a select prompt with no choices, are answered
\* allowed = false at once: no requestPermission call is made or awaited.
C25_DeniedWithoutClient ==
  [][/\ posts' # posts
     /\ \/ post'.type = "input"
        \/ post'.type = "select" /\ post'.choices.names = <<>>
     => /\ decision' = Denied
        /\ clientCalls' = clientCalls
        /\ bridge' = "idle"]_vars

\* A select prompt with an empty list of choices was denied and the client
\* was never called.
C25_Witness ==
  /\ posts = 1
  /\ post = [type |-> "select", choices |-> [given |-> TRUE, names |-> <<>>]]
  /\ decision = Denied
  /\ clientCalls = 0

\* C29: a prompt that is /help, /new, /model, /mode, /sessions, /session or
\* /status launches no subprocess and resolves with end_turn; /init is
\* launched as a prompt of the agent.
C29_LocalCommandsNeverLaunch ==
  LET parsed == ParseSlashCommand(userText)
  IN /\ parsed.parsed /\ parsed.command \in {"help", "new", "model", "mode",
                                            "sessions", "session", "status"}
          => /\ spawned = "none"
             /\ stopReason \in {"pending", "end_turn"}
     /\ parsed.parsed /\ parsed.command = "init" => spawned = "agent"

\* C31: whenever no executePrompt of the session is active, neither
\* session.activeProcess nor session.terminalHandle is set, whatever way the
\* last execution ended.
C31_NoHandleRetained ==
  (\A p \in Prompts : ~Executing(p))
    => activeProcess = 0 /\ terminalHandle = 0

C33_TimerKillsOnlyItsTarget ==
  [][\A c \in Cancels :
       timer[c] /\ ~timer'[c]
       => \A p \in Prompts : p # cTarget[c] => signals'[p] = signals[p]]_vars

\* C34: a cancel() called after executePrompt was entered and before the
\* agent was launched is not lost: once that cancel() has returned, the
\* subprocess of the prompt does not exit by itself without having been sent
\* a signal, and the prompt does not settle with end_turn after its
\* subprocess was launched.
C34_EarlyCancelNotLost ==
  [][\A p \in Prompts :
       cancelSeen[p] = "before"
       => /\ (/\ pc[p] = "exitWait" /\ child[p] = "running"
              /\ child'[p] \in {"code0", "code1"}
              /\ \A c \in Cancels : cpc[c] = "done")
             => signals[p] # {}
          /\ (/\ pc[p] \in {"tailWait", "errAwait", "codeAwait", "sigAwait",
                            "permStop", "termTailWait", "termPermStop"}
              /\ result[p] = "pending")
             => result'[p] # "end_turn"]_vars

\* C40: a cancel() called while no executePrompt of the session is active
\* does not reach later prompts: a prompt settles with cancelled only if a
\* cancel() was called during its own execution.
C40_IdleCancelDoesNotLeak ==
  [][\A p \in Prompts :
       result[p] = "pending" /\ result'[p] = "cancelled"
       => cancelSeen[p] # "none"]_vars

\* cancel() was called and returned before the first prompt began to execute;
\* the agent of that prompt runs and session.cancelled is false again.
C40_Witness ==
  /\ \A c \in Cancels : cpc[c] = "done"
  /\ pc[1] = "exitWait" /\ child[1] = "running"
  /\ cancelSeen[1] = "none"
  /\ ~cancelled

\* C35: a tailer that binds the session to a log the session was not bound
\* to reads it from its first byte with an empty remainder: at that step
\* session.conversationOffset is 0 and session.conversationRemainder is "".
C35_NewLogReadFromStart ==
  [][\A t \in Runs :
       /\ tpc[t] = "lookup" /\ tpc'[t] = "loop"
       /\ conversationPath' # conversationPath
       => conversationOffset' = 0 /\ conversationRemainder' = <<>>]_vars

\* C36: loadSession / resumeSession for an id the registry holds does not
\* break the serialization of its prompts: while a prompt of the id executes,
\* no prompt submitted for the id before it is still queued or executing.
C36_SerializedAcrossLoad ==
  \A i, j \in DOMAIN loadCalls :
    i < j /\ loadCalls[j].st = "executing"
      => loadCalls[i].st \notin {"queued", "executing"}

\* C37: configuration is per session: after setSessionConfigOption on a
\* session, a prompt of that session is launched with the value recorded in
\* its config options, and what a prompt of any other session is launched
\* with is what it was before the request.
C37_LaunchUsesOwnConfig ==
  [][requests' # requests =>
       LET r == lastRequest'
       IN /\ r.op = "setSessionConfigOption"
          /\ r.id \in sessions
          /\ r.configId \in ConfigIds
          /\ r.configId = "dry_run" => r.value \in {"enabled", "disabled"}
          => /\ LaunchSettings'[r.configId] = configOf'[r.id][r.configId]
             /\ \A b \in sessions \ {r.id} :
                  LaunchSettings' = LaunchSettings]_vars

\* C38: the bridge fails closed for tool-permission requests: once the client
\* has answered, the response is allowed = true if the outcome is selected
\* with option id allow_once or allow_always, and allowed = false with reason
\* external_denied for every other answer.
C38_FailsClosed ==
  post.type = "permission_request" /\ outcome.outcome # "none"
    => IF /\ outcome.outcome = "selected"
          /\ outcome.optionId \in {"allow_once", "allow_always"}
         THEN decision = Approved
         ELSE decision = Denied

\* The client answered a tool-permission request with an outcome kind the
\* bridge does not know, and the request was denied.
C38_Witness ==
  /\ post.type = "permission_request"
  /\ outcome.outcome = "unknown"
  /\ bridge = "idle"
  /\ decision = Denied

\* C39: a failed client.sessionUpdate does not stall the relay: the
\* notification queued behind one whose delivery failed is free to be sent,
\* and every notification is sent after all those queued before it.
C39_FailureDoesNotStall ==
  /\ [](\A i \in Links :
          /\ i > 1 /\ i \in DOMAIN updateChain
          /\ updateChain[i].st = "waiting"
          /\ updateChain[i - 1].st = "rejected"
          => ENABLED SendUpdate(i))
  /\ [][\A i \in Links :
          /\ i \in DOMAIN updateChain
          /\ updateChain[i].st = "waiting"
          /\ updateChain'[i].st = "sending"
          => /\ Len(received) = i - 1
             /\ received' = Append(received, i)]_vars

\* The delivery of the first notification failed and the two queued behind
\* it were sent, in order.
C39_Witness ==
  /\ Len(updateChain) >= 3
  /\ updateChain[1].st = "rejected"
  /\ updateChain[2].st = "fulfilled"
  /\ updateChain[3].st \in {"sending", "fulfilled"}
  /\ received = <<1, 2, 3>>

====
